---- MODULE Spec2Model ----
(***************************************************************************)
(* Pickle Reef gateway: the module state store, the consumable usage       *)
(* deriver, the cycle log synthesizer, the alarm tracker, the history      *)
(* stores and the websocket bridge, modelled as a state machine.           *)
(*                                                                         *)
(* Conventions.  A Python dict is a function whose DOMAIN is the set of    *)
(* keys present; a value that is None or an absent key is the same thing   *)
(* to every reader in the code (dict.get), so both are "key not in        *)
(* DOMAIN".  An Optional number is <<>> (None) or <<v>>.  Numbers are      *)
(* integers: full_edges is drawn from multiples of 100 and percentages     *)
(* from integers, so that every derived edge count is an integer and the   *)
(* Python float arithmetic is exact up to rounding noise; delta_mm, which  *)
(* need not be an integer, is kept as a reduced fraction.                  *)
(***************************************************************************)
EXTENDS Integers, Sequences, FiniteSets, TLC

VARIABLES
    store,        \* _module_status_store: module id -> ModuleStatus
    db,           \* durable module table: module id -> dumped record
    pending,      \* _pending_persist_tasks
    usageLog,     \* SpoolUsageLog rows, in id order
    cycleLog,     \* CycleLog rows, in id order
    snapshotLog,  \* ModuleSnapshot rows, in id order
    traceLog,     \* ws_trace_log rows, in id order
    registry,     \* ConnectionManager._connections: module id -> connection
    conns,        \* per websocket connection: transport, queue, tracked ids, position
    phase,        \* process life cycle: "startup", "serving"
    now,          \* the gateway clock (datetime.utcnow), in hours
    ops,          \* number of operations handled so far
    last,         \* history: the operation handled by the latest step
    hist          \* history: per module, what the frames handled so far reported

vars == <<store, db, pending, usageLog, cycleLog, snapshotLog, traceLog,
          registry, conns, phase, now, ops, last, hist>>

----------------------------------------------------------------------------
\* Bounds of the model

MaxSpoolOps == 4
MaxAlarmOps == 3
MaxAtoOps == 4
MaxOps == 4
MaxRehydrateOps == 6
MaxConnOps == 4
MaxConns == 2
MaxQueue == 1
MaxCancelOps == 3
MaxShutdownOps == 4
MaxMalformedOps == 4
MaxWriteFailOps == 3
MaxIdentOps == 4
MaxRegistryOps == 5
MaxControlOps == 3
MaxHandshakeOps == 4
MaxTraceOps == 3
MaxDeriveOps == 3
MaxNormalizeQueue == 2
MaxRetentionOps == 5
MaxCycleOps == 4
MaxRegisterOps == 3
MaxResolveOps == 1
MaxLogsOps == 4
MaxIdentityOps == 1
MaxPersistOps == 3
MaxOrderFrames == 3
MaxUsageOps == 3

----------------------------------------------------------------------------
\* Values

None == <<>>
Some(v) == <<v>>
EmptyDict == [k \in {} |-> 0]
Truthy(d) == DOMAIN d # {}

Max(a, b) == IF a >= b THEN a ELSE b
Min(a, b) == IF a <= b THEN a ELSE b

RECURSIVE Gcd(_, _)
Gcd(a, b) == IF b = 0 THEN a ELSE Gcd(b, a % b)

\* the float n/d as a reduced fraction (d > 0)
Frac(n, d) ==
    LET a == IF n < 0 THEN 0 - n ELSE n
        g == Gcd(a, d)
    IN  IF n = 0 THEN [n |-> 0, d |-> 1] ELSE [n |-> n \div g, d |-> d \div g]

\* {**a, **b}
DictMerge(a, b) ==
    [k \in DOMAIN a \cup DOMAIN b |-> IF k \in DOMAIN b THEN b[k] ELSE a[k]]

----------------------------------------------------------------------------
\* spool_usage.py

DEFAULT_SPOOL_LENGTH_MM == 50000
MAX_SPOOL_USAGE_ENTRIES == 5000

RECURSIVE FirstNumericKey(_, _)
FirstNumericKey(source, keys) ==
    IF keys = <<>> THEN None
    ELSE IF Head(keys) \in DOMAIN source THEN Some(source[Head(keys)])
    ELSE FirstNumericKey(source, Tail(keys))

RECURSIVE resolve_numeric(_, _, _)
resolve_numeric(sources, keys, fallback) ==
    IF sources = <<>> THEN fallback
    ELSE LET hit == IF Truthy(Head(sources))
                    THEN FirstNumericKey(Head(sources), keys) ELSE None
         IN  IF hit # None THEN hit
             ELSE resolve_numeric(Tail(sources), keys, fallback)

\* fullEdges * (1 - clamp(percent)/100)
PercentToUsed(full_edges, percent) ==
    (full_edges * (100 - Max(0, Min(100, percent)))) \div 100

resolve_used_edges_unclamped(spool, full_edges) ==
    IF ~Truthy(spool) THEN None
    ELSE IF "used_edges" \in DOMAIN spool THEN Some(spool.used_edges)
    ELSE IF "remaining_edges" \in DOMAIN spool /\ full_edges # 0
         THEN Some(full_edges - spool.remaining_edges)
    ELSE IF "percent_remaining" \in DOMAIN spool /\ full_edges # 0
         THEN Some((full_edges * (100 - spool.percent_remaining)) \div 100)
    ELSE None

resolve_used_edges(spool, full_edges) ==
    IF ~Truthy(spool) THEN None
    ELSE IF "used_edges" \in DOMAIN spool THEN Some(spool.used_edges)
    ELSE IF "remaining_edges" \in DOMAIN spool /\ full_edges # 0
         THEN Some(Max(0, full_edges - spool.remaining_edges))
    ELSE IF "percent_remaining" \in DOMAIN spool /\ full_edges # 0
         THEN Some(PercentToUsed(full_edges, spool.percent_remaining))
    ELSE None

\* delta_mm > total_length, with delta_mm = delta_edges * (total_length / full_edges)
\* and full_edges > 0
SpikeGuardNever(delta_edges, total_length, full_edges) == FALSE

SpikeGuardOffByOne(delta_edges, total_length, full_edges) ==
    delta_edges * total_length >= total_length * full_edges

SpikeGuard(delta_edges, total_length, full_edges) ==
    delta_edges * total_length > total_length * full_edges

derive_spool_usage_delta(previous_spool, current_spool, config_spool) ==
    IF ~Truthy(current_spool) THEN None
    ELSE
    LET fe == resolve_numeric(<<current_spool, config_spool>>, <<"full_edges">>, None)
    IN
    IF fe = None \/ fe[1] <= 0 THEN None
    ELSE
    LET tl == resolve_numeric(<<current_spool, config_spool>>,
                              <<"total_length_mm", "length_mm">>,
                              Some(DEFAULT_SPOOL_LENGTH_MM))
    IN
    IF tl = None \/ tl[1] <= 0 THEN None
    ELSE
    LET current_used  == resolve_used_edges(current_spool, fe[1])
        previous_used == IF Truthy(previous_spool)
                         THEN resolve_used_edges(previous_spool, fe[1]) ELSE None
    IN
    IF current_used = None \/ previous_used = None THEN None
    ELSE
    LET delta_edges == current_used[1] - previous_used[1]
    IN
    IF delta_edges <= 0 THEN None
    ELSE IF SpikeGuard(delta_edges, tl[1], fe[1]) THEN None
    ELSE Some([delta_edges      |-> delta_edges,
               delta_mm         |-> Frac(delta_edges * tl[1], fe[1]),
               total_used_edges |-> current_used[1]])

\* _prune_spool_usage_entries: rows are appended in recorded_at order, so the
\* stale rows (beyond the newest max) are a prefix of the sequence
PruneOldest_keep_all(rows, max) == rows

PruneOldest(rows, max) ==
    IF Len(rows) <= max THEN rows
    ELSE SubSeq(rows, Len(rows) - max + 1, Len(rows))

record_spool_usage_entry(log, module_id, delta, timestamp) ==
    PruneOldest(
        Append(log, [module_id        |-> module_id,
                     delta_edges      |-> delta.delta_edges,
                     delta_mm         |-> delta.delta_mm,
                     total_used_edges |-> delta.total_used_edges,
                     recorded_at      |-> timestamp]),
        MAX_SPOOL_USAGE_ENTRIES)

----------------------------------------------------------------------------
\* module_identity.py

MODULE_ID_KEYS == <<"module", "module_id", "id", "device_id", "device">>

\* a blank string normalizes to None
normalize_module_value(value) == IF value = "" THEN None ELSE Some(value)

RECURSIVE ScanModuleIdKeys(_, _)
ScanModuleIdKeys(ids, keys) ==
    IF keys = <<>> THEN None
    ELSE LET normalized == IF Head(keys) \in DOMAIN ids
                           THEN normalize_module_value(ids[Head(keys)]) ELSE None
         IN  IF normalized # None THEN normalized
             ELSE ScanModuleIdKeys(ids, Tail(keys))

\* fallback "" stands for None; `fallback or "unknown"`
resolve_module_id(payload, fallback) ==
    LET hit == ScanModuleIdKeys(payload.ids, MODULE_ID_KEYS)
    IN  IF hit # None THEN hit[1]
        ELSE IF fallback = "" THEN "unknown" ELSE fallback

----------------------------------------------------------------------------
\* cycle_log.py, module_snapshot.py

MAX_CYCLE_LOG_ENTRIES == 2000
MAX_SNAPSHOT_ROWS == 100000
SNAPSHOT_RETENTION_HOURS == 720

record_cycle_log(log, module_id, cycle_type, trigger, duration_ms, timestamp) ==
    PruneOldest(
        Append(log, [module_id   |-> module_id,
                     cycle_type  |-> cycle_type,
                     trigger     |-> trigger,
                     duration_ms |-> duration_ms,
                     recorded_at |-> timestamp]),
        MAX_CYCLE_LOG_ENTRIES)

\* n rows of the same content, one record_cycle_log call each
RECURSIVE record_cycle_logs(_, _, _, _, _, _, _)
record_cycle_logs(log, n, module_id, cycle_type, trigger, duration_ms, timestamp) ==
    IF n <= 0 THEN log
    ELSE record_cycle_logs(
             record_cycle_log(log, module_id, cycle_type, trigger, duration_ms, timestamp),
             n - 1, module_id, cycle_type, trigger, duration_ms, timestamp)

prune_snapshots(rows, timestamp) ==
    PruneOldest(
        SelectSeq(rows, LAMBDA r : r.recorded_at >= timestamp - SNAPSHOT_RETENTION_HOURS),
        MAX_SNAPSHOT_ROWS)

record_module_snapshot(rows, module_id, payload, recorded_at) ==
    prune_snapshots(
        Append(rows, [module_id |-> module_id, payload |-> payload,
                      recorded_at |-> recorded_at]),
        recorded_at)

----------------------------------------------------------------------------
\* module_status.py: the module state store

\* ModuleStatus(module_id=..., label=...): the schema defaults
NewModule(t) ==
    [status         |-> "offline",
     last_seen      |-> t,
     status_payload |-> [spool |-> EmptyDict, ato |-> EmptyDict],
     config_payload |-> [spool |-> EmptyDict],
     alarms         |-> <<>>]

Known(module_id) == module_id \in DOMAIN store

get_or_create_module(module_id) ==
    IF Known(module_id) THEN store[module_id] ELSE NewModule(now)

\* _module_status_store[module_id] = module
StorePut(module_id, module) ==
    [k \in DOMAIN store \cup {module_id} |->
        IF k = module_id THEN module ELSE store[k]]

\* loop.create_task(_persist_module(module)); tasks of one module that have
\* not started yet are indistinguishable, so the pending set holds one of them
schedule_persist(tasks, module_id) ==
    tasks \cup {[module_id |-> module_id, st |-> "created"]}

\* `module.status or "online"`
StatusOrOnline(status) == IF status = "" THEN "online" ELSE status

\* The handlers below are the operations of module_status.py.  Each is the
\* whole coroutine as one step: it reads and writes the store, the pending
\* set and the history tables, and leaves the clock and the connection
\* state to its caller.

\* upsert_module_status, the spool fragment kept in the stored payload
merge_status_spool_replace(existing_spool, incoming) ==
    IF Truthy(incoming) THEN incoming ELSE existing_spool

merge_status_spool(existing_spool, incoming) ==
    IF Truthy(existing_spool) /\ Truthy(incoming)
    THEN DictMerge(existing_spool, incoming)
    ELSE IF Truthy(existing_spool) THEN existing_spool
    ELSE incoming

\* upsert_module_status up to its first await: the payload stored in memory
\* (the spool fragment merged into the stored one) and the derived usage delta
status_payload_copy(payload) ==
    LET module == get_or_create_module(resolve_module_id(payload, "unknown"))
    IN  [k \in DOMAIN payload \ {"ids", "write_failure"} |->
            IF k = "spool"
            THEN merge_status_spool(module.status_payload.spool, payload.spool)
            ELSE payload[k]]

status_usage_delta(payload) ==
    LET module         == get_or_create_module(resolve_module_id(payload, "unknown"))
        previous_spool == module.status_payload.spool
        config_spool   == module.config_payload.spool
        current_spool  == status_payload_copy(payload).spool
    IN  IF Truthy(current_spool)
        THEN derive_spool_usage_delta(previous_spool, current_spool, config_spool)
        ELSE None

status_module(payload) ==
    LET module == get_or_create_module(resolve_module_id(payload, "unknown"))
    IN  [module EXCEPT !.status = "online", !.last_seen = now,
                       !.status_payload = status_payload_copy(payload)]

upsert_module_status(payload) ==
    LET module_id   == resolve_module_id(payload, "unknown")
        payload_copy == status_payload_copy(payload)
        usage_delta  == status_usage_delta(payload)
    IN  /\ store' = StorePut(module_id, status_module(payload))
        /\ usageLog' = IF usage_delta # None
                       THEN record_spool_usage_entry(usageLog, module_id,
                                                     usage_delta[1], now)
                       ELSE usageLog
        /\ pending' = schedule_persist(pending, module_id)
        /\ snapshotLog' = record_module_snapshot(snapshotLog, module_id, payload_copy, now)
        /\ UNCHANGED <<db, cycleLog>>

mark_module_offline_stamp_only(module_id) ==
    IF ~Known(module_id)
    THEN UNCHANGED <<store, db, pending, usageLog, cycleLog, snapshotLog>>
    ELSE /\ store' = [store EXCEPT ![module_id].last_seen = now]
         /\ pending' = schedule_persist(pending, module_id)
         /\ UNCHANGED <<db, usageLog, cycleLog, snapshotLog>>

mark_module_offline(module_id) ==
    IF ~Known(module_id)
    THEN UNCHANGED <<store, db, pending, usageLog, cycleLog, snapshotLog>>
    ELSE /\ store' = [store EXCEPT ![module_id].status = "offline",
                                   ![module_id].last_seen = now]
         /\ pending' = schedule_persist(pending, module_id)
         /\ UNCHANGED <<db, usageLog, cycleLog, snapshotLog>>

\* dict(payload); the identity keys, held apart in payload.ids, are not kept
config_payload_copy(payload) == [k \in DOMAIN payload \ {"ids"} |-> payload[k]]

upsert_module_config(module_id, payload) ==
    LET module == get_or_create_module(module_id)
    IN  /\ store' = StorePut(module_id,
                        [module EXCEPT !.config_payload = config_payload_copy(payload),
                                       !.last_seen = now,
                                       !.status = StatusOrOnline(module.status)])
        /\ pending' = schedule_persist(pending, module_id)
        /\ UNCHANGED <<db, usageLog, cycleLog, snapshotLog>>

\* upsert_module_manifest; payload.submodules is None when the manifest has
\* no submodules list
upsert_module_manifest(module_id, payload) ==
    LET resolved_id   == resolve_module_id(payload, module_id)
        manifest      == config_payload_copy(payload)
        module        == get_or_create_module(resolved_id)
        with_manifest == DictMerge(module.config_payload, [module_manifest |-> manifest])
        merged_config == IF payload.submodules # None
                         THEN DictMerge(with_manifest, [subsystems |-> payload.submodules[1]])
                         ELSE with_manifest
    IN  /\ store' = StorePut(resolved_id,
                        [module EXCEPT !.config_payload = merged_config,
                                       !.last_seen = now,
                                       !.status = StatusOrOnline(module.status)])
        /\ pending' = schedule_persist(pending, resolved_id)
        /\ UNCHANGED <<db, usageLog, cycleLog, snapshotLog>>

\* _resolve_trigger: the first of trigger, reason, source that is a non-blank string
RECURSIVE FirstNonBlank(_, _, _)
FirstNonBlank(fields, keys, default) ==
    IF keys = <<>> THEN default
    ELSE IF Head(keys) \in DOMAIN fields /\ fields[Head(keys)] # ""
         THEN fields[Head(keys)]
    ELSE FirstNonBlank(fields, Tail(keys), default)

resolve_trigger(payload, default) ==
    FirstNonBlank(payload.trig, <<"trigger", "reason", "source">>, default)

\* the counter of a fragment, coerced to an int, or None
ActivationCount(fragment) ==
    IF "activations" \in DOMAIN fragment THEN Some(fragment.activations) ELSE None

\* number of cycle rows to synthesize: curr - prev when both counters are known
\* and the counter rose
Increments(previous, current) ==
    LET prev_count == ActivationCount(previous)
        curr_count == ActivationCount(current)
    IN  IF prev_count = None \/ curr_count = None \/ curr_count[1] <= prev_count[1]
        THEN 0
        ELSE curr_count[1] - prev_count[1]

record_spool_activation_cycles(log, module_id, previous_spool, current_spool, payload) ==
    record_cycle_logs(log, Increments(previous_spool, current_spool), module_id,
                      "roller_activation", resolve_trigger(payload, "auto"), None, now)

calculate_used_edges_from_percent(full_edges, percent_remaining) ==
    IF full_edges = None \/ percent_remaining = None THEN None
    ELSE IF full_edges[1] <= 0 THEN None
    ELSE Some(PercentToUsed(full_edges[1], percent_remaining[1]))

DictGet(d, k) == IF k \in DOMAIN d THEN Some(d[k]) ELSE None

\* `a or b` on Optional numbers: None and 0 are falsy
OrElse(a, b) == IF a # None /\ a[1] # 0 THEN a ELSE b

\* the nested spool object with the top-level helpers filled in where absent,
\* and `count` as an alias of activations
SpoolFragmentOf(payload) ==
    LET helpers == {"activations", "percent_remaining", "used_edges",
                    "remaining_edges", "empty_alarm"}
        filled  == [k \in DOMAIN payload.spool \cup (DOMAIN payload.top \cap helpers) |->
                       IF k \in DOMAIN payload.spool THEN payload.spool[k]
                       ELSE payload.top[k]]
    IN  IF "activations" \notin DOMAIN filled /\ "count" \in DOMAIN payload.top
        THEN DictMerge(filled, [activations |-> payload.top.count])
        ELSE filled

apply_spool_activations(payload, module_hint) ==
    LET module_id      == resolve_module_id(payload, module_hint)
        spool_fragment == SpoolFragmentOf(payload)
        module         == get_or_create_module(module_id)
        previous_spool == module.status_payload.spool
        merged0        == DictMerge(previous_spool, spool_fragment)
        config_spool   == module.config_payload.spool
        derived_edges  ==
            IF "used_edges" \notin DOMAIN spool_fragment
            THEN calculate_used_edges_from_percent(
                     OrElse(DictGet(merged0, "full_edges"),
                            DictGet(config_spool, "full_edges")),
                     DictGet(merged0, "percent_remaining"))
            ELSE None
        merged_spool   == IF derived_edges # None
                          THEN DictMerge(merged0, [used_edges |-> derived_edges[1]])
                          ELSE merged0
        usage_delta    == derive_spool_usage_delta(previous_spool, merged_spool,
                                                   config_spool)
    IN  IF module_id = "unknown" \/ ~Truthy(spool_fragment)
        THEN UNCHANGED <<store, db, pending, usageLog, cycleLog, snapshotLog>>
        ELSE /\ store' = StorePut(module_id,
                            [module EXCEPT !.status_payload.spool = merged_spool,
                                           !.last_seen = now,
                                           !.status = StatusOrOnline(module.status)])
             /\ usageLog' = IF usage_delta # None
                            THEN record_spool_usage_entry(usageLog, module_id,
                                                          usage_delta[1], now)
                            ELSE usageLog
             /\ cycleLog' = record_spool_activation_cycles(cycleLog, module_id,
                                previous_spool, merged_spool, payload)
             /\ pending' = schedule_persist(pending, module_id)
             /\ UNCHANGED <<db, snapshotLog>>

\* ATO_FLOW_ML_PER_MS = 0.0375 = 3/80
ATO_FLOW_NUM == 3
ATO_FLOW_DEN == 80

\* int(round(n / d)) for n >= 0, d > 0: Python rounds halves to even
RoundHalfEven(n, d) ==
    LET q == n \div d
        r == n % d
    IN  IF 2 * r < d THEN q
        ELSE IF 2 * r > d THEN q + 1
        ELSE IF q % 2 = 0 THEN q ELSE q + 1

estimate_ato_duration_ms(previous_ato, current_ato, increments) ==
    LET prev_level == DictGet(previous_ato, "tank_level_ml")
        curr_level == DictGet(current_ato, "tank_level_ml")
    IN  IF increments <= 0 THEN None
        ELSE IF prev_level = None \/ curr_level = None THEN None
        ELSE IF prev_level[1] <= curr_level[1] THEN None
        ELSE Some(RoundHalfEven((prev_level[1] - curr_level[1]) * ATO_FLOW_DEN,
                                increments * ATO_FLOW_NUM))

\* runtime_hint: the frame's duration_ms, or runtime_ms when duration_ms is None
RuntimeHint(payload) ==
    IF "duration_ms" \in DOMAIN payload.top
    THEN Some(payload.top.duration_ms)
    ELSE DictGet(payload.top, "runtime_ms")

PerCycleDuration(previous_ato, current_ato, payload, increments) ==
    LET duration_override == RuntimeHint(payload)
    IN  IF duration_override # None /\ duration_override[1] > 0
        THEN duration_override
        ELSE estimate_ato_duration_ms(previous_ato, current_ato, increments)

record_ato_activation_cycles(log, module_id, previous_ato, current_ato, payload) ==
    LET increments == Increments(previous_ato, current_ato)
    IN  record_cycle_logs(log, increments, module_id, "pump_activation",
                          resolve_trigger(payload, "auto"),
                          PerCycleDuration(previous_ato, current_ato, payload, increments),
                          now)

AtoFragmentOf(payload) ==
    LET helpers == {"activations", "tank_level_ml", "tank_capacity_ml", "tank_percent"}
    IN  [k \in DOMAIN payload.ato \cup (DOMAIN payload.top \cap helpers) |->
            IF k \in DOMAIN payload.ato THEN payload.ato[k] ELSE payload.top[k]]

apply_ato_activations(payload, module_hint) ==
    LET module_id    == resolve_module_id(payload, module_hint)
        ato_fragment == AtoFragmentOf(payload)
        module       == get_or_create_module(module_id)
        previous_ato == module.status_payload.ato
        merged_ato   == DictMerge(previous_ato, ato_fragment)
    IN  IF module_id = "unknown" \/ ~Truthy(ato_fragment)
        THEN UNCHANGED <<store, db, pending, usageLog, cycleLog, snapshotLog>>
        ELSE /\ store' = StorePut(module_id,
                            [module EXCEPT !.status_payload.ato = merged_ato,
                                           !.last_seen = now,
                                           !.status = StatusOrOnline(module.status)])
             /\ cycleLog' = record_ato_activation_cycles(cycleLog, module_id,
                                previous_ato, merged_ato, payload)
             /\ pending' = schedule_persist(pending, module_id)
             /\ UNCHANGED <<db, usageLog, snapshotLog>>

\* an Optional field with a default: `payload.get(k) or default`
OrDefault(opt, default) == IF opt # None /\ opt[1] # "" THEN opt[1] ELSE default

normalize_alarm_payload(alarm) ==
    [code        |-> alarm.code[1],
     severity    |-> OrDefault(alarm.severity, "warning"),
     active      |-> (alarm.active # None /\ alarm.active[1]),
     message     |-> OrDefault(alarm.message, alarm.code[1]),
     received_at |-> now]

\* the retained entries: those of other codes, then the new entry when active
RetainAlarmNoReplace(existing, normalized) ==
    IF normalized.active THEN Append(existing, normalized)
    ELSE SelectSeq(existing, LAMBDA e : e.code # normalized.code)

RetainAlarm(existing, normalized) ==
    LET without_code == SelectSeq(existing, LAMBDA e : e.code # normalized.code)
    IN  IF normalized.active THEN Append(without_code, normalized) ELSE without_code

record_module_alarm(payload, module_hint) ==
    LET module_id == resolve_module_id(payload, module_hint)
        module    == get_or_create_module(module_id)
    IN  IF payload.alarm.code = None \/ payload.alarm.code[1] = ""
        THEN UNCHANGED <<store, db, pending, usageLog, cycleLog, snapshotLog>>
        ELSE /\ store' = StorePut(module_id,
                            [module EXCEPT
                                !.alarms = RetainAlarm(module.alarms,
                                               normalize_alarm_payload(payload.alarm)),
                                !.last_seen = now,
                                !.status = StatusOrOnline(module.status)])
             /\ pending' = schedule_persist(pending, module_id)
             /\ UNCHANGED <<db, usageLog, cycleLog, snapshotLog>>

\* rows of a table that belong to / do not belong to a module
RowsOf(rows, module_id) == SelectSeq(rows, LAMBDA r : r.module_id = module_id)
RowsNotOf(rows, module_id) == SelectSeq(rows, LAMBDA r : r.module_id # module_id)

DictRemove(d, k) == [x \in DOMAIN d \ {k} |-> d[x]]

\* A persistence task holds the module object.  Once the object is dropped
\* from the store nothing mutates it any more, so a task of it that has not
\* started yet will dump exactly the object's state at the purge.
OrphanTasks(tasks, module_id) ==
    {IF t.module_id = module_id /\ t.st = "created" /\ Known(module_id)
     THEN [module_id |-> module_id, st |-> "dumped", payload |-> store[module_id]]
     ELSE t : t \in tasks}

\* the number of rows and records purge_module_records removes
PurgeCount(module_id) ==
    (IF Known(module_id) THEN 1 ELSE 0)
    + Len(RowsOf(usageLog, module_id))
    + Len(RowsOf(snapshotLog, module_id))
    + (IF module_id \in DOMAIN db THEN 1 ELSE 0)

purge_module_records(module_id) ==
    IF module_id = ""
    THEN UNCHANGED <<store, db, pending, usageLog, cycleLog, snapshotLog>>
    ELSE /\ store' = DictRemove(store, module_id)
         /\ usageLog' = RowsNotOf(usageLog, module_id)
         /\ snapshotLog' = RowsNotOf(snapshotLog, module_id)
         /\ db' = DictRemove(db, module_id)
         /\ pending' = OrphanTasks(pending, module_id)
         /\ UNCHANGED cycleLog

\* _persist_module, first step: payload = module.model_dump()
persist_module_dump(task) ==
    /\ task.st = "created"
    /\ pending' = (pending \ {task}) \cup
                  {[module_id |-> task.module_id, st |-> "dumped",
                    payload |-> store[task.module_id]]}
    /\ UNCHANGED <<store, db, usageLog, cycleLog, snapshotLog>>

\* _persist_module, _save(): update or insert the row, commit; then the done
\* callback discards the task from the pending set
persist_module_save(task) ==
    /\ task.st = "dumped"
    /\ db' = [k \in DOMAIN db \cup {task.module_id} |->
                 IF k = task.module_id THEN task.payload ELSE db[k]]
    /\ pending' = pending \ {task}
    /\ UNCHANGED <<store, usageLog, cycleLog, snapshotLog>>

----------------------------------------------------------------------------
\* The state after construction: empty store and tables, no connection

Init ==
    /\ store = EmptyDict
    /\ db = EmptyDict
    /\ pending = {}
    /\ usageLog = <<>>
    /\ cycleLog = <<>>
    /\ snapshotLog = <<>>
    /\ traceLog = <<>>
    /\ registry = EmptyDict
    /\ conns = EmptyDict
    /\ phase = "serving"
    /\ now = 1
    /\ ops = 0
    /\ last = [op |-> "init", at |-> 0]
    /\ hist = [alarms |-> EmptyDict, counters |-> EmptyDict]

DictPut(d, k, v) == [x \in DOMAIN d \cup {k} |-> IF x = k THEN v ELSE d[x]]

\* History of the inputs.  hist.alarms[<<module, code>>] is the latest alarm
\* frame that named the code, and how many did; hist.counters[<<module, kind>>]
\* is the activation counter the latest frame carrying one reported.
AlarmHistory(op, module_id, payload) ==
    IF op = "alarm" /\ payload.alarm.code # None /\ payload.alarm.code[1] # ""
    THEN LET key == <<module_id, payload.alarm.code[1]>>
         IN  DictPut(hist.alarms, key,
                     [frame |-> payload.alarm, at |-> now,
                      n |-> IF key \in DOMAIN hist.alarms
                            THEN hist.alarms[key].n + 1 ELSE 1])
    ELSE hist.alarms

ReportedCounter(op, payload, kind) ==
    IF kind = "roller" /\ op = "spool_activations"
        THEN ActivationCount(SpoolFragmentOf(payload))
    ELSE IF kind = "roller" /\ op = "status" THEN ActivationCount(payload.spool)
    ELSE IF kind = "pump" /\ op = "ato_activations"
        THEN ActivationCount(AtoFragmentOf(payload))
    ELSE IF kind = "pump" /\ op = "status" THEN ActivationCount(payload.ato)
    ELSE None

CounterHistory(op, module_id, payload) ==
    LET put(h, kind) == IF ReportedCounter(op, payload, kind) # None
                        THEN DictPut(h, <<module_id, kind>>,
                                     ReportedCounter(op, payload, kind)[1])
                        ELSE h
    IN  put(put(hist.counters, "roller"), "pump")

\* one handled operation: the clock advances, the step is recorded
Handled(op, module_id, payload, max) ==
    /\ ops < max
    /\ ops' = ops + 1
    /\ now' = now + 1
    /\ last' = [op |-> op, module_id |-> module_id, payload |-> payload, at |-> now]
    /\ hist' = [alarms   |-> AlarmHistory(op, module_id, payload),
                counters |-> CounterHistory(op, module_id, payload)]

BridgeUnchanged == UNCHANGED <<traceLog, registry, conns, phase>>

Ids(module_id) == IF module_id = "" THEN EmptyDict ELSE [module |-> module_id]

----------------------------------------------------------------------------
\* SpecSpool: status, config and spool_activations frames of one roller module

SpoolModule == "A"

SpoolStatusFragments ==
    { EmptyDict,
      [full_edges |-> 100, used_edges |-> 0],
      [full_edges |-> 100, total_length_mm |-> 1000, remaining_edges |-> 100],
      [total_length_mm |-> 0],
      [used_edges |-> 40],
      [used_edges |-> 100],
      [used_edges |-> 250],
      [remaining_edges |-> 30],
      [percent_remaining |-> 50] }

SpoolConfigFragments == { EmptyDict, [full_edges |-> 200] }

SpoolActivationTops ==
    { [activations |-> 1, percent_remaining |-> 50],
      [activations |-> 2, percent_remaining |-> 98],
      [count |-> 3],
      [activations |-> 2, used_edges |-> 100] }

SpoolStatus(max) ==
    \E f \in SpoolStatusFragments :
        LET payload == [ids |-> Ids(SpoolModule), spool |-> f, ato |-> EmptyDict]
        IN  /\ Handled("status", resolve_module_id(payload, "unknown"), payload, max)
            /\ upsert_module_status(payload)
            /\ BridgeUnchanged

SpoolConfig(max) ==
    \E f \in SpoolConfigFragments :
        LET payload == [ids |-> Ids(SpoolModule), spool |-> f]
        IN  /\ Handled("config", SpoolModule, payload, max)
            /\ upsert_module_config(SpoolModule, payload)
            /\ BridgeUnchanged

SpoolActivations(max) ==
    \E top \in SpoolActivationTops :
        LET payload == [ids |-> Ids(SpoolModule), spool |-> EmptyDict, top |-> top,
                        trig |-> EmptyDict]
        IN  /\ Handled("spool_activations", resolve_module_id(payload, "unknown"),
                       payload, max)
            /\ apply_spool_activations(payload, "unknown")
            /\ BridgeUnchanged

NextSpool ==
    \/ SpoolStatus(MaxSpoolOps)
    \/ SpoolConfig(MaxSpoolOps)
    \/ SpoolActivations(MaxSpoolOps)

SpecSpool == Init /\ [][NextSpool]_vars

\* the spool fragment stored for a module in the current state
StoredSpool(module_id) ==
    IF Known(module_id) THEN store[module_id].status_payload.spool ELSE EmptyDict
StoredConfigSpool(module_id) ==
    IF Known(module_id) THEN store[module_id].config_payload.spool ELSE EmptyDict

\* the step handled a status or spool_activations frame, and the values the
\* usage deriver resolves for it: previous from the fragment stored before
\* the step, current from the fragment stored after it
UsageStep == ops' = ops + 1 /\ last'.op \in {"status", "spool_activations"}
UsageFull ==
    resolve_numeric(<<store'[last'.module_id].status_payload.spool,
                      StoredConfigSpool(last'.module_id)>>, <<"full_edges">>, None)
UsageTotal ==
    resolve_numeric(<<store'[last'.module_id].status_payload.spool,
                      StoredConfigSpool(last'.module_id)>>,
                    <<"total_length_mm", "length_mm">>, Some(DEFAULT_SPOOL_LENGTH_MM))
UsageCurrent ==
    resolve_used_edges(store'[last'.module_id].status_payload.spool, UsageFull[1])
UsagePrevious ==
    resolve_used_edges(StoredSpool(last'.module_id), UsageFull[1])
UsageRises ==
    /\ last'.module_id \in DOMAIN store'
    /\ UsageFull # None /\ UsageFull[1] > 0
    /\ UsageCurrent # None /\ UsagePrevious # None
    /\ UsageCurrent[1] > UsagePrevious[1]
    /\ (UsageCurrent[1] - UsagePrevious[1]) * UsageTotal[1] <= UsageTotal[1] * UsageFull[1]
UsageRowAppended ==
    usageLog' = Append(usageLog,
        [module_id        |-> last'.module_id,
         delta_edges      |-> UsageCurrent[1] - UsagePrevious[1],
         delta_mm         |-> Frac((UsageCurrent[1] - UsagePrevious[1]) * UsageTotal[1],
                                   UsageFull[1]),
         total_used_edges |-> UsageCurrent[1],
         recorded_at      |-> now])

\* C1 as stated: whenever a status or spool_activations frame is handled with
\* a resolved fullEdges > 0, current used edges above the previous ones and
\* deltaMm <= totalLengthMm, exactly one usage row (deltaEdges, deltaMm,
\* currentUsed) is appended.
C1_AsStated == [][UsageStep /\ UsageRises => UsageRowAppended]_vars

\* C1 amended: the same, for a resolved totalLengthMm > 0 (the deriver
\* produces nothing for a total length that is zero or negative).
C1_UsageRowAppended ==
    [][UsageStep /\ UsageRises /\ UsageTotal[1] > 0 => UsageRowAppended]_vars

\* a usage row derived from a percent_remaining carried by a spool_activations
\* frame has just been appended
C1_Witness ==
    /\ last.op = "spool_activations"
    /\ usageLog # <<>>
    /\ usageLog[Len(usageLog)].recorded_at = last.at
    /\ usageLog[Len(usageLog)].delta_edges > 0

\* C2: a status frame for a module with a stored spool fragment keeps every
\* stored field the incoming fragment lacks, takes every field the incoming
\* fragment carries, and leaves the fragment alone when it carries none.
C2_MergePreservesOld ==
    [][(/\ ops' = ops + 1
        /\ last'.op = "status"
        /\ Truthy(StoredSpool(last'.module_id)))
       => LET old      == StoredSpool(last'.module_id)
              incoming == last'.payload.spool
              new      == store'[last'.module_id].status_payload.spool
          IN  /\ \A k \in DOMAIN old \ DOMAIN incoming :
                    k \in DOMAIN new /\ new[k] = old[k]
              /\ \A k \in DOMAIN incoming :
                    k \in DOMAIN new /\ new[k] = incoming[k]
              /\ (DOMAIN incoming = {} => new = old)]_vars

\* a status frame that lacked a stored field and overwrote another was handled
C2_Witness ==
    /\ last.op = "status"
    /\ Known(last.module_id)
    /\ DOMAIN last.payload.spool # {}
    /\ DOMAIN store[last.module_id].status_payload.spool \ DOMAIN last.payload.spool # {}
    /\ "used_edges" \in DOMAIN last.payload.spool
    /\ last.payload.spool.used_edges > 0

----------------------------------------------------------------------------
\* SpecAlarm: alarm frames of two modules and two codes, with status frames
\* in between

AlarmModules == {"A", "B"}
AlarmCodes == {"pump_timeout", "leak"}

AlarmPayloads ==
    { [code |-> c, severity |-> s, active |-> a, message |-> None] :
        c \in {Some(x) : x \in AlarmCodes},
        s \in {None, Some("critical")},
        a \in {None, Some(TRUE), Some(FALSE)} }
    \cup { [code |-> None, severity |-> None, active |-> Some(TRUE), message |-> None] }

Alarm(max) ==
    \E m \in AlarmModules, alarm \in AlarmPayloads :
        LET payload == [ids |-> Ids(m), alarm |-> alarm]
        IN  /\ Handled("alarm", resolve_module_id(payload, "unknown"), payload, max)
            /\ record_module_alarm(payload, "unknown")
            /\ BridgeUnchanged

PlainStatus(modules, max) ==
    \E m \in modules :
        LET payload == [ids |-> Ids(m), spool |-> EmptyDict, ato |-> EmptyDict]
        IN  /\ Handled("status", resolve_module_id(payload, "unknown"), payload, max)
            /\ upsert_module_status(payload)
            /\ BridgeUnchanged

NextAlarm ==
    \/ Alarm(MaxAlarmOps)
    \/ PlainStatus(AlarmModules, MaxAlarmOps)

SpecAlarm == Init /\ [][NextAlarm]_vars

AlarmEntries(module_id, code) ==
    IF Known(module_id)
    THEN SelectSeq(store[module_id].alarms, LAMBDA e : e.code = code)
    ELSE <<>>

\* C3: the alarm set of a module holds exactly one entry for each code whose
\* most recent alarm frame had active=true, carrying that frame's values
\* (severity defaulting to "warning", message to the code), no entry for a
\* code whose most recent frame had active=false or no active field, and never
\* an entry with active=false.
C3_AlarmSetIsLatestActive ==
    \A m \in AlarmModules, c \in AlarmCodes :
        LET entries == AlarmEntries(m, c)
            key     == <<m, c>>
        IN  /\ \A i \in 1..Len(entries) : entries[i].active
            /\ IF key \in DOMAIN hist.alarms
                  /\ hist.alarms[key].frame.active = Some(TRUE)
               THEN /\ Len(entries) = 1
                    /\ entries[1].received_at = hist.alarms[key].at
                    /\ entries[1].severity =
                          (IF hist.alarms[key].frame.severity = None THEN "warning"
                           ELSE hist.alarms[key].frame.severity[1])
                    /\ entries[1].message = c
               ELSE entries = <<>>

\* the same active alarm was sent at least twice and is held once
C3_Witness ==
    \E m \in AlarmModules, c \in AlarmCodes :
        /\ <<m, c>> \in DOMAIN hist.alarms
        /\ hist.alarms[<<m, c>>].n >= 2
        /\ hist.alarms[<<m, c>>].frame.active = Some(TRUE)
        /\ Len(AlarmEntries(m, c)) = 1
        /\ last.op = "alarm"

----------------------------------------------------------------------------
\* SpecAto: ato_activations and spool_activations frames of one module, with
\* status, config and alarm frames in between

AtoModule == "A"

AtoActivationTops ==
    { [activations |-> 1, tank_level_ml |-> 900],
      [activations |-> 3, tank_level_ml |-> 700],
      [activations |-> 2],
      [activations |-> 4, duration_ms |-> 1200],
      [activations |-> 4, duration_ms |-> 0, runtime_ms |-> 500],
      [activations |-> 4, runtime_ms |-> 800],
      [tank_level_ml |-> 950] }

TriggerFields ==
    { EmptyDict, [reason |-> "manual"], [trigger |-> "", source |-> "button"] }

AtoStatusFragments ==
    { EmptyDict, [tank_level_ml |-> 1000], [activations |-> 2, tank_level_ml |-> 1000] }

RollerActivationTops == { [activations |-> 1], [activations |-> 3], [count |-> 2] }

AtoActivations(max) ==
    \E top \in AtoActivationTops, trig \in TriggerFields :
        LET payload == [ids |-> Ids(AtoModule), ato |-> EmptyDict, top |-> top,
                        trig |-> trig]
        IN  /\ Handled("ato_activations", resolve_module_id(payload, "unknown"),
                       payload, max)
            /\ apply_ato_activations(payload, "unknown")
            /\ BridgeUnchanged

RollerActivations(max) ==
    \E top \in RollerActivationTops, trig \in TriggerFields :
        LET payload == [ids |-> Ids(AtoModule), spool |-> EmptyDict, top |-> top,
                        trig |-> trig]
        IN  /\ Handled("spool_activations", resolve_module_id(payload, "unknown"),
                       payload, max)
            /\ apply_spool_activations(payload, "unknown")
            /\ BridgeUnchanged

AtoStatus(max) ==
    \E f \in AtoStatusFragments, sp \in {EmptyDict, [activations |-> 2]} :
        LET payload == [ids |-> Ids(AtoModule), spool |-> sp, ato |-> f]
        IN  /\ Handled("status", resolve_module_id(payload, "unknown"), payload, max)
            /\ upsert_module_status(payload)
            /\ BridgeUnchanged

AtoConfig(max) ==
    LET payload == [ids |-> Ids(AtoModule), spool |-> EmptyDict]
    IN  /\ Handled("config", AtoModule, payload, max)
        /\ upsert_module_config(AtoModule, payload)
        /\ BridgeUnchanged

AtoAlarm(max) ==
    \E a \in {TRUE, FALSE} :
        LET payload == [ids |-> Ids(AtoModule),
                        alarm |-> [code |-> Some("pump_timeout"), severity |-> None,
                                   active |-> Some(a), message |-> None]]
        IN  /\ Handled("alarm", resolve_module_id(payload, "unknown"), payload, max)
            /\ record_module_alarm(payload, "unknown")
            /\ BridgeUnchanged

NextAto ==
    \/ AtoActivations(MaxAtoOps)
    \/ RollerActivations(MaxAtoOps)
    \/ AtoStatus(MaxAtoOps)
    \/ AtoConfig(MaxAtoOps)
    \/ AtoAlarm(MaxAtoOps)

SpecAto == Init /\ [][NextAto]_vars

\* the step handled an activations frame; its kind of cycle
ActivationStep == ops' = ops + 1 /\ last'.op \in {"spool_activations", "ato_activations"}
StepKind == IF last'.op = "spool_activations" THEN "roller" ELSE "pump"
StepCycleType == IF last'.op = "spool_activations" THEN "roller_activation"
                 ELSE "pump_activation"
NewCycleRows == SubSeq(cycleLog', Len(cycleLog) + 1, Len(cycleLog'))

\* the increase of the counter the frame reports over the counter reported before
CounterIncrease ==
    LET key  == <<last'.module_id, StepKind>>
        curr == ReportedCounter(last'.op, last'.payload, StepKind)
    IN  IF key \in DOMAIN hist.counters /\ curr # None /\ curr[1] > hist.counters[key]
        THEN curr[1] - hist.counters[key]
        ELSE 0

StepTrigger ==
    LET t == last'.payload.trig
    IN  IF "trigger" \in DOMAIN t /\ t.trigger # "" THEN t.trigger
        ELSE IF "reason" \in DOMAIN t /\ t.reason # "" THEN t.reason
        ELSE IF "source" \in DOMAIN t /\ t.source # "" THEN t.source
        ELSE "auto"

\* C4: handling a spool_activations or ato_activations frame appends as many
\* cycle rows (roller_activation, resp. pump_activation) as the counter rose
\* over the value previously reported for the module, whatever frames were
\* handled in between, none when it did not rise or was never reported; each
\* row carries the trigger resolved from trigger/reason/source, default "auto".
C4_CyclesEqualCounterIncrease ==
    [][ActivationStep =>
        /\ Len(cycleLog') = Len(cycleLog) + CounterIncrease
        /\ SubSeq(cycleLog', 1, Len(cycleLog)) = cycleLog
        /\ \A i \in 1..Len(NewCycleRows) :
              /\ NewCycleRows[i].module_id = last'.module_id
              /\ NewCycleRows[i].cycle_type = StepCycleType
              /\ NewCycleRows[i].trigger = StepTrigger]_vars

Abs(x) == IF x < 0 THEN 0 - x ELSE x

\* the duration the claim prescribes for each of the n pump cycles of the step
DurationAsClaimed(row_duration, n) ==
    LET top        == last'.payload.top
        prev_level == DictGet(store[last'.module_id].status_payload.ato, "tank_level_ml")
        curr_level == DictGet(store'[last'.module_id].status_payload.ato, "tank_level_ml")
    IN  IF "duration_ms" \in DOMAIN top /\ top.duration_ms > 0
        THEN row_duration = Some(top.duration_ms)
        ELSE IF "runtime_ms" \in DOMAIN top /\ top.runtime_ms > 0
        THEN row_duration = Some(top.runtime_ms)
        ELSE IF prev_level # None /\ curr_level # None /\ prev_level[1] > curr_level[1]
        THEN /\ row_duration # None
             \* the integer nearest to (drop / n) / 0.0375 = 80 * drop / (3 * n)
             /\ 2 * Abs(row_duration[1] * 3 * n - 80 * (prev_level[1] - curr_level[1]))
                    <= 3 * n
        ELSE row_duration = None

\* C5: the n >= 1 pump cycles synthesized for an ato_activations frame all
\* carry the same durationMs: the frame's duration_ms or runtime_ms when one
\* of them is positive, else the tank-level drop per cycle divided by
\* 0.0375 mL/ms and rounded, else null.
C5_PumpDuration ==
    [][(ops' = ops + 1 /\ last'.op = "ato_activations" /\ Len(cycleLog') > Len(cycleLog))
       => \A i \in 1..Len(NewCycleRows) :
             DurationAsClaimed(NewCycleRows[i].duration_ms, Len(NewCycleRows))]_vars

----------------------------------------------------------------------------
\* Spec: the module state store with its background persistence; frames of
\* two modules, the purge of a module, and the persistence tasks

Modules == {"A", "B"}

StoreStatus(max) ==
    \E m \in Modules, f \in {[full_edges |-> 100, used_edges |-> 0], [used_edges |-> 40]} :
        LET payload == [ids |-> Ids(m), spool |-> f, ato |-> EmptyDict]
        IN  /\ Handled("status", resolve_module_id(payload, "unknown"), payload, max)
            /\ upsert_module_status(payload)
            /\ BridgeUnchanged

StoreAtoActivations(max) ==
    \E m \in Modules, top \in {[activations |-> 1], [activations |-> 2]} :
        LET payload == [ids |-> Ids(m), ato |-> EmptyDict, top |-> top,
                        trig |-> EmptyDict]
        IN  /\ Handled("ato_activations", resolve_module_id(payload, "unknown"),
                       payload, max)
            /\ apply_ato_activations(payload, "unknown")
            /\ BridgeUnchanged

StoreAlarm(max) ==
    \E m \in Modules :
        LET payload == [ids |-> Ids(m),
                        alarm |-> [code |-> Some("leak"), severity |-> None,
                                   active |-> Some(TRUE), message |-> None]]
        IN  /\ Handled("alarm", resolve_module_id(payload, "unknown"), payload, max)
            /\ record_module_alarm(payload, "unknown")
            /\ BridgeUnchanged

\* DELETE /modules/{module_id}: the payload of the step is the count reported
Purge(max) ==
    \E m \in Modules :
        /\ Handled("purge", m, [removed |-> PurgeCount(m)], max)
        /\ purge_module_records(m)
        /\ BridgeUnchanged

Background == UNCHANGED <<traceLog, registry, conns, phase, now, ops, hist>>

PersistDump ==
    \E task \in pending :
        /\ persist_module_dump(task)
        /\ last' = [op |-> "persist_dump", module_id |-> task.module_id, at |-> now]
        /\ Background

PersistSave ==
    \E task \in pending :
        /\ persist_module_save(task)
        /\ last' = [op |-> "persist_save", module_id |-> task.module_id, at |-> now]
        /\ Background

Next ==
    \/ StoreStatus(MaxOps)
    \/ StoreAtoActivations(MaxOps)
    \/ StoreAlarm(MaxOps)
    \/ Purge(MaxOps)
    \/ PersistDump
    \/ PersistSave

Spec == Init /\ [][Next]_vars

\* C6: purging a module id removes its record, in memory and durable, and
\* all usage-log, snapshot and cycle-log rows of the id, and reports the
\* number removed; an immediately following purge of the same id removes
\* nothing and reports zero.
C6_PurgeRemovesAll ==
    [][(ops' = ops + 1 /\ last'.op = "purge") =>
        LET m == last'.module_id
        IN  /\ m \notin DOMAIN store'
            /\ m \notin DOMAIN db'
            /\ RowsOf(usageLog', m) = <<>>
            /\ RowsOf(snapshotLog', m) = <<>>
            /\ RowsOf(cycleLog', m) = <<>>
            /\ last'.payload.removed =
                  (Cardinality(DOMAIN store) - Cardinality(DOMAIN store'))
                  + (Cardinality(DOMAIN db) - Cardinality(DOMAIN db'))
                  + (Len(usageLog) - Len(usageLog'))
                  + (Len(snapshotLog) - Len(snapshotLog'))
                  + (Len(cycleLog) - Len(cycleLog'))
            /\ (last.op = "purge" /\ last.module_id = m =>
                  /\ last'.payload.removed = 0
                  /\ UNCHANGED <<store, db, usageLog, snapshotLog, cycleLog>>)]_vars

----------------------------------------------------------------------------
\* ws_trace.py and the rehydration of spool_usage.py

MAX_TRACE_ENTRIES == 10000
TRACE_REHYDRATE_WINDOW_HOURS == 720

\* record_ws_trace: insert, then _prune keeps the newest MAX_TRACE_ENTRIES rows.
\* The calendar-age pruning depends on a deployment setting that has no
\* default in core/config.py; it is modelled switched off (RETENTION_DAYS = 0).
record_ws_trace(rows, direction, type, payload, module_id) ==
    PruneOldest(
        Append(rows, [timestamp |-> now, direction |-> direction,
                      module_id |-> module_id, type |-> type, payload |-> payload]),
        MAX_TRACE_ENTRIES)

\* get_ws_trace(limit): the newest rows; the caller reverses them back into
\* chronological order
get_ws_trace(rows, limit) == PruneOldest(rows, Max(1, Min(limit, MAX_TRACE_ENTRIES)))

\* the replay loop of rehydrate_spool_usage_history.  A status payload whose
\* spool key is absent is skipped; snapshots holds the raw fragment of the
\* module's previous replayed frame.
RECURSIVE rehydrate_scan(_, _, _, _)
rehydrate_scan(rows, cutoff, snapshots, rebuilt) ==
    IF rows = <<>> THEN rebuilt
    ELSE
    LET entry     == Head(rows)
        skipped   == \/ entry.direction # "rx"
                     \/ entry.type # "status"
                     \/ ~Truthy(entry.payload.spool)
                     \/ entry.timestamp < cutoff
        module_id == IF entry.module_id # "" THEN entry.module_id
                     ELSE resolve_module_id(entry.payload, "unknown")
    IN
    IF skipped \/ module_id = "unknown"
    THEN rehydrate_scan(Tail(rows), cutoff, snapshots, rebuilt)
    ELSE
    LET previous == IF module_id \in DOMAIN snapshots THEN snapshots[module_id]
                    ELSE EmptyDict
        delta    == derive_spool_usage_delta(previous, entry.payload.spool, EmptyDict)
    IN  rehydrate_scan(Tail(rows), cutoff,
                       DictPut(snapshots, module_id, entry.payload.spool),
                       IF delta # None
                       THEN Append(rebuilt,
                                [module_id        |-> module_id,
                                 delta_edges      |-> delta[1].delta_edges,
                                 delta_mm         |-> delta[1].delta_mm,
                                 total_used_edges |-> delta[1].total_used_edges,
                                 recorded_at      |-> entry.timestamp])
                       ELSE rebuilt)

\* the rows rehydrate_spool_usage_history adds to the usage log
rehydrate_rebuilt_unguarded(log, trace, window_hours) ==
    PruneOldest(rehydrate_scan(get_ws_trace(trace, MAX_TRACE_ENTRIES),
                               now - window_hours, EmptyDict, <<>>),
                MAX_SPOOL_USAGE_ENTRIES)

rehydrate_rebuilt(log, trace, window_hours) ==
    IF log # <<>> THEN <<>>
    ELSE PruneOldest(rehydrate_scan(get_ws_trace(trace, MAX_TRACE_ENTRIES),
                                    now - window_hours, EmptyDict, <<>>),
                     MAX_SPOOL_USAGE_ENTRIES)

rehydrate_spool_usage_history(log, trace, window_hours) ==
    PruneOldest(log \o rehydrate_rebuilt(log, trace, window_hours),
                MAX_SPOOL_USAGE_ENTRIES)

----------------------------------------------------------------------------
\* SpecRehydrate: status frames received on one connection (traced, then
\* handled), time passing, and restarts of the process

RehydrateModules == {"A", "B"}

RehydrateStatusFragments ==
    { [full_edges |-> 100, used_edges |-> 0],
      [full_edges |-> 100, used_edges |-> 40],
      [used_edges |-> 70] }

\* _receive_module_frames records the status frame in the trace log, the
\* endpoint then handles it
LiveStatus(max) ==
    \E m \in RehydrateModules, f \in RehydrateStatusFragments :
        LET payload == [ids |-> Ids(m), spool |-> f, ato |-> EmptyDict]
        IN  /\ phase = "serving"
            /\ Handled("status", resolve_module_id(payload, "unknown"), payload, max)
            /\ traceLog' = record_ws_trace(traceLog, "rx", "status", payload,
                                           resolve_module_id(payload, ""))
            /\ upsert_module_status(payload)
            /\ UNCHANGED <<registry, conns, phase>>

\* a rehydration window of wall-clock time goes by
TimePasses(max) ==
    /\ ops < max
    /\ ops' = ops + 1
    /\ now' = now + TRACE_REHYDRATE_WINDOW_HOURS
    /\ last' = [op |-> "time", at |-> now]
    /\ UNCHANGED <<store, db, pending, usageLog, cycleLog, snapshotLog, traceLog,
                   registry, conns, phase, hist>>

\* drain_module_persistence: every pending task runs to completion
Drained ==
    [m \in DOMAIN db \cup {t.module_id : t \in pending} |->
        IF \E t \in pending : t.module_id = m /\ t.st = "created" THEN store[m]
        ELSE IF \E t \in pending : t.module_id = m
             THEN (CHOOSE t \in pending : t.module_id = m).payload
        ELSE db[m]]

\* shutdown_event; with lost = TRUE the main database is gone before the
\* next start (the trace log lives in its own file and survives)
Shutdown(max) ==
    \E lost \in BOOLEAN :
        /\ phase = "serving"
        /\ ops < max
        /\ ops' = ops + 1
        /\ now' = now + 1
        /\ last' = [op |-> "shutdown", payload |-> [lost |-> lost], at |-> now]
        /\ db' = IF lost THEN EmptyDict ELSE Drained
        /\ pending' = {}
        /\ store' = EmptyDict
        /\ usageLog' = IF lost THEN <<>> ELSE usageLog
        /\ cycleLog' = IF lost THEN <<>> ELSE cycleLog
        /\ snapshotLog' = IF lost THEN <<>> ELSE snapshotLog
        /\ phase' = "down"
        /\ UNCHANGED <<traceLog, registry, conns, hist>>

\* startup_event: hydrate_module_store_from_db, purge_legacy_modules (no
\* module id of the model is a legacy id), rehydrate_spool_usage_history;
\* only then does the server accept connections
Startup(max) ==
    /\ phase = "down"
    /\ ops < max
    /\ ops' = ops + 1
    /\ now' = now + 1
    /\ last' = [op |-> "startup", at |-> now,
                payload |-> [rebuilt |-> Len(rehydrate_rebuilt(usageLog, traceLog,
                                                 TRACE_REHYDRATE_WINDOW_HOURS)),
                             existing_rows |-> Len(usageLog)]]
    /\ store' = db
    /\ usageLog' = rehydrate_spool_usage_history(usageLog, traceLog,
                                                 TRACE_REHYDRATE_WINDOW_HOURS)
    /\ phase' = "serving"
    /\ UNCHANGED <<db, pending, cycleLog, snapshotLog, traceLog, registry, conns, hist>>

NextRehydrate ==
    \/ LiveStatus(MaxRehydrateOps)
    \/ TimePasses(MaxRehydrateOps)
    \/ Shutdown(MaxRehydrateOps)
    \/ Startup(MaxRehydrateOps)

SpecRehydrate == Init /\ [][NextRehydrate]_vars

\* Live status handling replayed over trace rows from an empty store:
\* stored is the spool fragment live handling keeps per module (merged)
RECURSIVE LiveReplay(_, _, _, _)
LiveReplay(rows, cutoff, stored, out) ==
    IF rows = <<>> THEN out
    ELSE
    LET entry == Head(rows)
    IN
    IF entry.direction # "rx" \/ entry.type # "status" \/ entry.timestamp < cutoff
    THEN LiveReplay(Tail(rows), cutoff, stored, out)
    ELSE
    LET m        == entry.module_id
        previous == IF m \in DOMAIN stored THEN stored[m] ELSE EmptyDict
        current  == merge_status_spool(previous, entry.payload.spool)
        delta    == IF Truthy(current)
                    THEN derive_spool_usage_delta(previous, current, EmptyDict)
                    ELSE None
    IN  LiveReplay(Tail(rows), cutoff, DictPut(stored, m, current),
                   IF delta # None
                   THEN Append(out, [module_id        |-> m,
                                     delta_edges      |-> delta[1].delta_edges,
                                     delta_mm         |-> delta[1].delta_mm,
                                     total_used_edges |-> delta[1].total_used_edges,
                                     recorded_at      |-> entry.timestamp])
                   ELSE out)

\* C7: started with an empty usage log, rehydration leaves exactly the usage
\* rows that live status handling produces for the status frames of the
\* trace log inside the rehydration window, replayed per module in
\* chronological order, each row stamped with its frame's trace timestamp.
C7_RehydrateMatchesLive ==
    (last.op = "startup" /\ last.payload.existing_rows = 0)
        => usageLog = LiveReplay(traceLog, last.at - TRACE_REHYDRATE_WINDOW_HOURS,
                                 EmptyDict, <<>>)

\* C8: rehydration runs at startup only, before any frame is handled, and
\* with at least one row in the usage log it returns 0 and leaves the usage
\* log unchanged, so that a rehydration after one that added rows adds none.
C8_RehydrateOnlyWhenEmpty ==
    [][/\ (ops' = ops + 1 /\ last'.op = "startup") =>
            /\ phase = "down" /\ phase' = "serving"
            /\ (usageLog # <<>> =>
                    usageLog' = usageLog /\ last'.payload.rebuilt = 0)
       /\ (ops' = ops + 1 /\ last'.op = "status") => phase = "serving"]_vars

\* a start that found rows left by an earlier rehydration and added none
C8_Witness ==
    /\ last.op = "startup"
    /\ last.payload.existing_rows > 0
    /\ last.payload.rebuilt = 0
    /\ \E i \in 1..Len(usageLog) : usageLog[i].recorded_at < last.at - 2

----------------------------------------------------------------------------
\* SpecConn: the websocket endpoint.  Each connection has a receiver task that
\* puts normalized frames on the connection's queue and an endpoint loop that
\* takes them off and handles them.
\*   conns[c].sock       "open" or "closed"
\*   conns[c].tracked    module_id of _receive_module_frames ("" is None)
\*   conns[c].module_id  module_id of websocket_endpoint ("" is None)
\*   conns[c].queue      frame_queue; an entry of type "" has msg_type None, as the
\*                       (None, None, id) marker has; `received` tells, for the
\*                       properties only, an entry made from a received frame
\*                       from the marker the receiver queues when it stops
\*   conns[c].ended      the endpoint loop has left its while loop

ConnModules == {"A", "B"}

ConnFrames ==
    { [type |-> "status", payload |-> [ids |-> Ids(m), spool |-> EmptyDict, ato |-> EmptyDict]] :
        m \in ConnModules }
    \cup { [type |-> "config", payload |-> [ids |-> EmptyDict, spool |-> [full_edges |-> 100]]] }

\* ConnectionManager.register / unregister
register(module_id, websocket) == DictPut(registry, module_id, websocket)
unregister(module_id) == DictRemove(registry, module_id)

ConnPut(c, r) == DictPut(conns, c, r)

\* websocket_endpoint up to the creation of the receiver task (the two request
\* frames it sends are traced only with the ws_trace setting on; it is off)
Accept ==
    \E c \in 1..MaxConns :
        /\ phase = "serving"
        /\ c \notin DOMAIN conns
        /\ conns' = ConnPut(c, [sock |-> "open", tracked |-> "", module_id |-> "",
                                queue |-> <<>>, ended |-> FALSE])
        /\ UNCHANGED <<store, db, pending, usageLog, cycleLog, snapshotLog, traceLog,
                       registry, phase, now, ops, last, hist>>

maybe_record_ws_trace_unforced(rows, direction, type, payload, module_id, ws_trace, force) ==
    IF ws_trace THEN record_ws_trace(rows, direction, type, payload, module_id) ELSE rows

\* maybe_record_ws_trace: ws_trace is settings.ws_trace
maybe_record_ws_trace(rows, direction, type, payload, module_id, ws_trace, force) ==
    IF ~(ws_trace \/ force) THEN rows
    ELSE record_ws_trace(rows, direction, type, payload, module_id)

\* one iteration of _receive_module_frames under the setting ws_trace
ReceiveFrameTraced(c, f, ws_trace) ==
        LET resolved_id == resolve_module_id(f.payload, conns[c].tracked)
            module_id   == IF resolved_id \notin {"", "unknown"} THEN resolved_id
                           ELSE conns[c].tracked
        IN  /\ conns[c].sock = "open"
            /\ ~conns[c].ended
            /\ Len(conns[c].queue) < MaxQueue
            /\ traceLog' = maybe_record_ws_trace(traceLog, "rx", f.type, f.payload,
                                                 module_id, ws_trace, f.type = "status")
            /\ conns' = ConnPut(c, [conns[c] EXCEPT
                            !.tracked = module_id,
                            !.queue = Append(@, [type |-> f.type, payload |-> f.payload,
                                                 module_id |-> module_id,
                                                 received |-> TRUE])])
            /\ UNCHANGED <<store, db, pending, usageLog, cycleLog, snapshotLog,
                           registry, phase, now, ops, last, hist>>

\* one iteration of _receive_module_frames with the ws_trace setting off
ReceiveFrame(c, f) == ReceiveFrameTraced(c, f, FALSE)

Receive == \E c \in DOMAIN conns, f \in ConnFrames : ReceiveFrame(c, f)

\* the peer goes away: receive_json raises WebSocketDisconnect and the
\* receiver queues the marker
Disconnect ==
    \E c \in DOMAIN conns :
        /\ conns[c].sock = "open"
        /\ ~conns[c].ended
        /\ conns' = ConnPut(c, [conns[c] EXCEPT
                        !.sock = "closed",
                        !.queue = Append(@, [type |-> "", payload |-> EmptyDict,
                                             module_id |-> conns[c].tracked,
                                             received |-> FALSE])])
        /\ UNCHANGED <<store, db, pending, usageLog, cycleLog, snapshotLog, traceLog,
                       registry, phase, now, ops, last, hist>>

\* the cleanup of websocket_endpoint: manager.unregister, mark_module_offline
Cleanup(module_id) ==
    IF module_id = ""
    THEN UNCHANGED <<store, db, pending, usageLog, cycleLog, snapshotLog, registry>>
    ELSE /\ registry' = unregister(module_id)
         /\ mark_module_offline(module_id)

\* one iteration of the endpoint loop on the head of the queue.  With
\* raises = TRUE the handler raises before it changes anything and the
\* endpoint's `except Exception` branch runs.
DispatchFrame(c, raises, max) ==
        /\ ~conns[c].ended
        /\ conns[c].queue # <<>>
        /\ LET frame     == Head(conns[c].queue)
               module_id == IF frame.module_id \notin {"", "unknown"} THEN frame.module_id
                            ELSE conns[c].module_id
               status_id == resolve_module_id(frame.payload, "unknown")
           IN
           IF frame.type = ""
           THEN /\ ~raises
                /\ Handled("disconnect", module_id, EmptyDict, max)
                /\ Cleanup(module_id)
                /\ conns' = ConnPut(c, [conns[c] EXCEPT !.queue = Tail(@),
                                        !.module_id = module_id, !.ended = TRUE])
           ELSE IF raises
           THEN /\ Handled("error", module_id, EmptyDict, max)
                /\ Cleanup(module_id)
                /\ conns' = ConnPut(c, [conns[c] EXCEPT !.queue = Tail(@),
                                        !.module_id = module_id, !.ended = TRUE,
                                        !.sock = "closed"])
           ELSE IF frame.type = "status"
           THEN /\ Handled("status", status_id, frame.payload, max)
                /\ upsert_module_status(frame.payload)
                /\ registry' = register(status_id, c)
                /\ conns' = ConnPut(c, [conns[c] EXCEPT !.queue = Tail(@),
                                        !.module_id = status_id])
           ELSE IF frame.type = "config" /\ module_id # ""
           THEN /\ Handled("config", module_id, frame.payload, max)
                /\ upsert_module_config(module_id, frame.payload)
                /\ conns' = ConnPut(c, [conns[c] EXCEPT !.queue = Tail(@),
                                        !.module_id = module_id])
                /\ UNCHANGED registry
           ELSE IF frame.type = "alarm"
           THEN /\ Handled("alarm", resolve_module_id(frame.payload, module_id),
                           frame.payload, max)
                /\ record_module_alarm(frame.payload, module_id)
                /\ conns' = ConnPut(c, [conns[c] EXCEPT !.queue = Tail(@),
                                        !.module_id = module_id])
                /\ UNCHANGED registry
           ELSE IF frame.type = "cycle_log"
           THEN /\ Handled("cycle_log", resolve_module_id(frame.payload, "unknown"),
                           frame.payload, max)
                /\ cycleLog' = record_cycle_log(cycleLog,
                                    resolve_module_id(frame.payload, "unknown"),
                                    frame.payload.cycle_type, frame.payload.trigger,
                                    None, now)
                /\ conns' = ConnPut(c, [conns[c] EXCEPT !.queue = Tail(@),
                                        !.module_id = module_id])
                /\ UNCHANGED <<store, db, pending, usageLog, snapshotLog, registry>>
           ELSE IF frame.type = "spool_activations"
           THEN /\ Handled("spool_activations",
                           resolve_module_id(frame.payload, module_id), frame.payload, max)
                /\ apply_spool_activations(frame.payload, module_id)
                /\ conns' = ConnPut(c, [conns[c] EXCEPT !.queue = Tail(@),
                                        !.module_id = module_id])
                /\ UNCHANGED registry
           ELSE IF frame.type = "ato_activations"
           THEN /\ Handled("ato_activations",
                           resolve_module_id(frame.payload, module_id), frame.payload, max)
                /\ apply_ato_activations(frame.payload, module_id)
                /\ conns' = ConnPut(c, [conns[c] EXCEPT !.queue = Tail(@),
                                        !.module_id = module_id])
                /\ UNCHANGED registry
           ELSE /\ Handled("unhandled", module_id, EmptyDict, max)
                /\ conns' = ConnPut(c, [conns[c] EXCEPT !.queue = Tail(@)])
                /\ UNCHANGED <<store, db, pending, usageLog, cycleLog, snapshotLog,
                               registry>>
        /\ UNCHANGED <<traceLog, phase>>

Dispatch(max) ==
    \E c \in DOMAIN conns, raises \in BOOLEAN : DispatchFrame(c, raises, max)

NextConn ==
    \/ Accept
    \/ Receive
    \/ Disconnect
    \/ Dispatch(MaxConnOps)

SpecConn == Init /\ [][NextConn]_vars

\* connection c leaves its endpoint loop in this step
ConnEnds(c) == c \in DOMAIN conns /\ ~conns[c].ended /\ conns'[c].ended

\* module m is served by an open connection other than c
ServedElsewhere(m, c) ==
    /\ m \in DOMAIN registry
    /\ registry[m] # c
    /\ conns[registry[m]].sock = "open"
    /\ ~conns[registry[m]].ended

\* C9: when a connection ends through a disconnect or a processing error,
\* every module registered to a different, still open connection stays in
\* the Connection Registry with the same connection and is not marked
\* offline, also when that module had registered on the ending connection
\* earlier.
C9_DisconnectIsolated ==
    [][\A c \in DOMAIN conns : ConnEnds(c) =>
          \A m \in DOMAIN registry : ServedElsewhere(m, c) =>
              /\ m \in DOMAIN registry'
              /\ registry'[m] = registry[m]
              /\ store'[m].status = store[m].status]_vars

----------------------------------------------------------------------------
\* SpecCancel: one connection whose status frames are handled await by await,
\* and cancellations of the connection task.
\*   conns[c].pc     "idle"     the endpoint waits in frame_queue.get()
\*                   "usage"    upsert_module_status waits in record_spool_usage_entry
\*                   "snapshot" upsert_module_status waits in record_module_snapshot
\*   conns[c].frame  the locals of the handling in flight or last finished:
\*                   module_id, payload_copy, usage_delta, at (module.last_seen)
\*                   and whether it has called _schedule_persist
\*   conns[c].cancel_requested  a cancellation held back by the shielded scope

CancelModule == "A"
CancelConn == 1

CancelStatusFragments ==
    { [full_edges |-> 100, used_edges |-> 0],
      [used_edges |-> 40],
      [used_edges |-> 70] }

\* how a cancellation reaches the task: through an enclosing anyio cancel
\* scope, which CancelScope(shield=True) holds back until the scope is left,
\* or as a native Task.cancel(), which raises CancelledError at the await the
\* task is suspended in
CancelKinds == {"scope", "native"}

CancelAccept ==
    /\ phase = "serving"
    /\ CancelConn \notin DOMAIN conns
    /\ conns' = ConnPut(CancelConn,
                    [sock |-> "open", tracked |-> "", module_id |-> "", queue |-> <<>>,
                     ended |-> FALSE, pc |-> "idle", frame |-> None,
                     cancel_requested |-> FALSE])
    /\ UNCHANGED <<store, db, pending, usageLog, cycleLog, snapshotLog, traceLog,
                   registry, phase, now, ops, last, hist>>

\* _schedule_persist(module), then record_module_snapshot up to its await
ToSnapshotAwait(module_id) == pending' = schedule_persist(pending, module_id)

\* a status frame is received and dispatched; upsert_module_status runs to
\* its first await
CancelBegin(max) ==
    \E f \in CancelStatusFragments :
        LET payload == [ids |-> Ids(CancelModule), spool |-> f, ato |-> EmptyDict]
            delta   == status_usage_delta(payload)
        IN  /\ CancelConn \in DOMAIN conns
            /\ ~conns[CancelConn].ended
            /\ conns[CancelConn].pc = "idle"
            /\ Handled("status", CancelModule, payload, max)
            /\ traceLog' = record_ws_trace(traceLog, "rx", "status", payload, CancelModule)
            /\ store' = StorePut(CancelModule, status_module(payload))
            /\ IF delta # None
               THEN UNCHANGED pending
               ELSE ToSnapshotAwait(CancelModule)
            /\ conns' = ConnPut(CancelConn, [conns[CancelConn] EXCEPT
                            !.tracked = CancelModule, !.module_id = CancelModule,
                            !.pc = IF delta # None THEN "usage" ELSE "snapshot",
                            !.frame = Some([module_id    |-> CancelModule,
                                            payload_copy |-> status_payload_copy(payload),
                                            usage_delta  |-> delta,
                                            at           |-> now,
                                            persist_scheduled |-> delta = None])])
            /\ UNCHANGED <<db, usageLog, cycleLog, snapshotLog, registry, phase>>

\* record_spool_usage_entry returns; the handler goes on to _schedule_persist
\* and waits in record_module_snapshot
CancelUsageDone ==
    /\ CancelConn \in DOMAIN conns
    /\ conns[CancelConn].pc = "usage"
    /\ LET f == conns[CancelConn].frame[1]
       IN  usageLog' = record_spool_usage_entry(usageLog, f.module_id,
                                                f.usage_delta[1], f.at)
    /\ ToSnapshotAwait(CancelModule)
    /\ conns' = ConnPut(CancelConn,
                    [conns[CancelConn] EXCEPT
                        !.pc = "snapshot",
                        !.frame = Some([@[1] EXCEPT !.persist_scheduled = TRUE])])
    /\ UNCHANGED <<store, db, cycleLog, snapshotLog, traceLog, registry, phase,
                   now, ops, last, hist>>

\* the handler's return: manager.register, back to frame_queue.get(); a
\* cancellation the shielded scope held back is delivered there and ends the
\* endpoint loop
HandlerReturns ==
    /\ registry' = register(CancelModule, CancelConn)
    /\ conns' = ConnPut(CancelConn, [conns[CancelConn] EXCEPT
                    !.pc = "idle", !.cancel_requested = FALSE,
                    !.ended = conns[CancelConn].cancel_requested])

\* record_module_snapshot returns
CancelSnapshotDone ==
    /\ CancelConn \in DOMAIN conns
    /\ conns[CancelConn].pc = "snapshot"
    /\ LET f == conns[CancelConn].frame[1]
       IN  snapshotLog' = record_module_snapshot(snapshotLog, f.module_id,
                                                 f.payload_copy, f.at)
    /\ HandlerReturns
    /\ UNCHANGED <<store, db, pending, usageLog, cycleLog, traceLog, phase,
                   now, ops, last, hist>>

\* the connection task is cancelled.
\*  - idle: the endpoint loop ends.
\*  - scope cancellation during handling: held back by the shield.
\*  - native cancellation in record_spool_usage_entry: CancelledError leaves
\*    upsert_module_status there (the row is committed or not, depending on
\*    the await it hit); the endpoint catches it and continues its loop.
\*  - native cancellation in record_module_snapshot: asyncio.shield keeps the
\*    inner write running (taken as completed here), upsert_module_status
\*    catches the CancelledError and returns normally.
Cancel ==
    \E kind \in CancelKinds, committed \in BOOLEAN :
        /\ CancelConn \in DOMAIN conns
        /\ ~conns[CancelConn].ended
        /\ ~conns[CancelConn].cancel_requested
        /\ LET f == conns[CancelConn].frame[1]
           IN
           IF conns[CancelConn].pc = "idle"
           THEN /\ committed
                /\ conns' = ConnPut(CancelConn, [conns[CancelConn] EXCEPT !.ended = TRUE])
                /\ UNCHANGED <<usageLog, snapshotLog, registry>>
           ELSE IF kind = "scope"
           THEN /\ committed
                /\ conns' = ConnPut(CancelConn,
                                [conns[CancelConn] EXCEPT !.cancel_requested = TRUE])
                /\ UNCHANGED <<usageLog, snapshotLog, registry>>
           ELSE IF conns[CancelConn].pc = "usage"
           THEN /\ usageLog' = IF committed
                               THEN record_spool_usage_entry(usageLog, f.module_id,
                                                             f.usage_delta[1], f.at)
                               ELSE usageLog
                /\ conns' = ConnPut(CancelConn, [conns[CancelConn] EXCEPT !.pc = "idle"])
                /\ UNCHANGED <<snapshotLog, registry>>
           ELSE /\ committed
                /\ snapshotLog' = record_module_snapshot(snapshotLog, f.module_id,
                                                         f.payload_copy, f.at)
                /\ HandlerReturns
                /\ UNCHANGED usageLog
        /\ UNCHANGED <<store, db, pending, cycleLog, traceLog, phase, now, ops,
                       last, hist>>

NextCancel ==
    \/ CancelAccept
    \/ CancelBegin(MaxCancelOps)
    \/ CancelUsageDone
    \/ CancelSnapshotDone
    \/ Cancel
    \/ PersistDump
    \/ PersistSave

SpecCancel == Init /\ [][NextCancel]_vars

\* everything upsert_module_status does for the frame has been done
FrameApplied(f) ==
    /\ f.module_id \in DOMAIN store
    /\ store[f.module_id].status_payload = f.payload_copy
    /\ f.usage_delta # None =>
          \E i \in 1..Len(usageLog) :
              /\ usageLog[i].module_id = f.module_id
              /\ usageLog[i].recorded_at = f.at
              /\ usageLog[i].delta_edges = f.usage_delta[1].delta_edges
    /\ f.persist_scheduled
    /\ \E i \in 1..Len(snapshotLog) :
          /\ snapshotLog[i].module_id = f.module_id
          /\ snapshotLog[i].recorded_at = f.at
          /\ snapshotLog[i].payload = f.payload_copy

\* C10: once the handling of a dispatched frame is over, whether or not the
\* connection task was cancelled while it ran, the frame is applied in full:
\* the in-memory record holds it, its usage row and snapshot row are written
\* and the durable write of the record has been scheduled.
C10_HandlingCompletes ==
    \A c \in DOMAIN conns :
        ("pc" \in DOMAIN conns[c] /\ conns[c].pc = "idle" /\ conns[c].frame # None)
            => FrameApplied(conns[c].frame[1])

----------------------------------------------------------------------------
\* SpecShutdown: frames handled while the server serves, persistence tasks
\* running in the background, and shutdown_event step by step.  The server
\* finishes its connections before it runs the shutdown event, so nothing
\* but persistence tasks runs while drain_module_persistence waits.
\*   phase "serving" -> "draining" (in asyncio.gather) -> "down" (close_db done)

ShutdownModules == {"A", "B"}

ShutStatus(max) ==
    \E m \in ShutdownModules, f \in {[used_edges |-> 0], [used_edges |-> 40]} :
        LET payload == [ids |-> Ids(m), spool |-> f, ato |-> EmptyDict]
        IN  /\ phase = "serving"
            /\ Handled("status", m, payload, max)
            /\ upsert_module_status(payload)
            /\ BridgeUnchanged

\* the cleanup of a connection that closes
ShutOffline(max) ==
    \E m \in ShutdownModules :
        /\ phase = "serving"
        /\ Handled("offline", m, EmptyDict, max)
        /\ mark_module_offline(m)
        /\ BridgeUnchanged

ShutPersistDump ==
    \E task \in pending :
        /\ phase # "down"
        /\ persist_module_dump(task)
        /\ UNCHANGED <<traceLog, registry, conns, phase, now, ops, last, hist>>

ShutPersistSave ==
    \E task \in pending :
        /\ phase # "down"
        /\ persist_module_save(task)
        /\ UNCHANGED <<traceLog, registry, conns, phase, now, ops, last, hist>>

\* drain_module_persistence: gather() returns once every awaited task is done;
\* the done callback of each has discarded it from the pending set by then
drain_returns_at_once(tasks) == TRUE

drain_returns(tasks) == tasks = {}

\* shutdown_event enters drain_module_persistence
DrainBegin ==
    /\ phase = "serving"
    /\ phase' = "draining"
    /\ last' = [op |-> "drain", awaited |-> Cardinality(pending), at |-> now]
    /\ UNCHANGED <<store, db, pending, usageLog, cycleLog, snapshotLog, traceLog,
                   registry, conns, now, ops, hist>>

\* drain_module_persistence returns and close_db disposes of the engine
DrainEnd ==
    /\ phase = "draining"
    /\ drain_returns(pending)
    /\ phase' = "down"
    /\ last' = [op |-> "close_db", awaited |-> last.awaited, at |-> now]
    /\ UNCHANGED <<store, db, pending, usageLog, cycleLog, snapshotLog, traceLog,
                   registry, conns, now, ops, hist>>

NextShutdown ==
    \/ ShutStatus(MaxShutdownOps)
    \/ ShutOffline(MaxShutdownOps)
    \/ ShutPersistDump
    \/ ShutPersistSave
    \/ DrainBegin
    \/ DrainEnd

SpecShutdown == Init /\ [][NextShutdown]_vars

----------------------------------------------------------------------------
\* SpecMalformed: one connection that receives well-formed frames and frames
\* of unexpected shape

\* a JSON value that is not an object, where a fragment is expected
JsonText(text) == [json_text |-> text]
IsDict(value) == "json_text" \notin DOMAIN value

MalformedModule == "A"

MalformedFrames ==
    { \* a JSON object without a "type" field
      [type |-> "", payload |-> [ids |-> Ids(MalformedModule)]],
      \* an unrecognized type
      [type |-> "bogus", payload |-> [ids |-> EmptyDict]],
      \* an alarm frame whose alarm field is a string
      [type |-> "alarm", payload |-> [ids |-> EmptyDict, alarm |-> JsonText("boom")]],
      \* an alarm frame without a code
      [type |-> "alarm",
       payload |-> [ids |-> EmptyDict,
                    alarm |-> [code |-> None, severity |-> None,
                               active |-> Some(TRUE), message |-> None]]],
      [type |-> "status",
       payload |-> [ids |-> Ids(MalformedModule), spool |-> EmptyDict, ato |-> EmptyDict]] }

\* record_module_alarm: `alarm_payload = payload.get("alarm") or {}` followed
\* by alarm_payload.get("code") raises for a value that is not an object
handler_raises(queue) ==
    /\ queue # <<>>
    /\ Head(queue).type = "alarm"
    /\ ~IsDict(Head(queue).payload.alarm)

MalformedAccept ==
    /\ phase = "serving"
    /\ 1 \notin DOMAIN conns
    /\ conns' = ConnPut(1, [sock |-> "open", tracked |-> "", module_id |-> "",
                            queue |-> <<>>, ended |-> FALSE])
    /\ UNCHANGED <<store, db, pending, usageLog, cycleLog, snapshotLog, traceLog,
                   registry, phase, now, ops, last, hist>>

MalformedReceive ==
    \E c \in DOMAIN conns, f \in MalformedFrames : ReceiveFrame(c, f)

MalformedDispatch(max) ==
    \E c \in DOMAIN conns : DispatchFrame(c, handler_raises(conns[c].queue), max)

NextMalformed ==
    \/ MalformedAccept
    \/ MalformedReceive
    \/ Disconnect
    \/ MalformedDispatch(MaxMalformedOps)

SpecMalformed == Init /\ [][NextMalformed]_vars

\* the endpoint of connection c takes an entry made from a received frame
\* off its queue in this step
TakesReceivedFrame(c) ==
    /\ ~conns[c].ended
    /\ conns[c].queue # <<>>
    /\ Head(conns[c].queue).received
    /\ conns'[c].queue = Tail(conns[c].queue)

\* C12: handling a received frame, whatever its shape, does not end the
\* endpoint loop, does not close the connection and leaves every registered
\* module registered.
C12_MalformedFrameTolerated ==
    [][\A c \in DOMAIN conns : TakesReceivedFrame(c) =>
          /\ ~conns'[c].ended
          /\ conns'[c].sock = conns[c].sock
          /\ \A m \in DOMAIN registry : m \in DOMAIN registry']_vars

----------------------------------------------------------------------------
\* SpecWriteFail: status frames of one connection whose durable writes may
\* fail (the database raises).  payload.write_failure names, for the
\* properties only, the write that failed while the frame was handled.

WriteFailModule == "A"
WriteFailConn == 1

WriteFailFragments ==
    { [full_edges |-> 100, used_edges |-> 0], [used_edges |-> 40], [used_edges |-> 70] }

WriteFailAccept ==
    /\ phase = "serving"
    /\ WriteFailConn \notin DOMAIN conns
    /\ conns' = ConnPut(WriteFailConn,
                    [sock |-> "open", tracked |-> "", module_id |-> "",
                     queue |-> <<>>, ended |-> FALSE])
    /\ UNCHANGED <<store, db, pending, usageLog, cycleLog, snapshotLog, traceLog,
                   registry, phase, now, ops, last, hist>>

\* a status frame is received, dispatched and handled.
\*  - "usage": record_spool_usage_entry raises; upsert_module_status has
\*    changed the record in memory and does nothing further; the exception
\*    reaches the endpoint's `except Exception` branch (unregister,
\*    mark_module_offline, close)
\*  - "snapshot": record_module_snapshot raises; upsert_module_status logs it
\*  - "none": every write of the handler succeeds
WriteFailStatus(max) ==
    \E f \in WriteFailFragments, failed \in {"none", "usage", "snapshot"} :
        LET m       == WriteFailModule
            c       == WriteFailConn
            payload == [ids |-> Ids(m), spool |-> f, ato |-> EmptyDict,
                        write_failure |-> failed]
            delta   == status_usage_delta(payload)
        IN  /\ c \in DOMAIN conns
            /\ ~conns[c].ended
            /\ failed = "usage" => delta # None
            /\ Handled("status", m, payload, max)
            /\ traceLog' = record_ws_trace(traceLog, "rx", "status", payload, m)
            /\ pending' = schedule_persist(pending, m)
            /\ IF failed = "usage"
               THEN /\ store' = StorePut(m, [status_module(payload) EXCEPT
                                                !.status = "offline"])
                    /\ registry' = unregister(m)
                    /\ conns' = ConnPut(c, [conns[c] EXCEPT
                                    !.tracked = m, !.module_id = m,
                                    !.sock = "closed", !.ended = TRUE])
                    /\ UNCHANGED <<usageLog, snapshotLog>>
               ELSE /\ store' = StorePut(m, status_module(payload))
                    /\ usageLog' = IF delta # None
                                   THEN record_spool_usage_entry(usageLog, m, delta[1], now)
                                   ELSE usageLog
                    /\ snapshotLog' = IF failed = "snapshot" THEN snapshotLog
                                      ELSE record_module_snapshot(snapshotLog, m,
                                               status_payload_copy(payload), now)
                    /\ registry' = register(m, c)
                    /\ conns' = ConnPut(c, [conns[c] EXCEPT
                                    !.tracked = m, !.module_id = m])
            /\ UNCHANGED <<db, cycleLog, phase>>

\* _save raises in a persistence task: the done callback logs the exception
\* and discards the task
PersistFail ==
    \E task \in pending :
        /\ task.st = "dumped"
        /\ pending' = pending \ {task}
        /\ last' = [op |-> "persist_failed", module_id |-> task.module_id, at |-> now]
        /\ UNCHANGED <<store, db, usageLog, cycleLog, snapshotLog, traceLog, registry,
                       conns, phase, now, ops, hist>>

NextWriteFail ==
    \/ WriteFailAccept
    \/ WriteFailStatus(MaxWriteFailOps)
    \/ PersistDump
    \/ PersistSave
    \/ PersistFail

SpecWriteFail == Init /\ [][NextWriteFail]_vars

\* a durable write fails in this step
WriteFailsInStep ==
    \/ /\ ops' = ops + 1
       /\ last'.op = "status"
       /\ last'.payload.write_failure # "none"
    \/ /\ last'.op = "persist_failed"
       /\ pending' # pending

\* C13: a step in which a durable write fails leaves the connection open and
\* its endpoint loop running and every registered module registered; and
\* every handled status frame schedules the write of the module record anew.
C13_WriteFailureContained ==
    [][/\ WriteFailsInStep =>
            /\ \A c \in DOMAIN conns :
                  /\ conns'[c].sock = conns[c].sock
                  /\ conns'[c].ended = conns[c].ended
            /\ \A m \in DOMAIN registry : m \in DOMAIN registry'
       /\ (ops' = ops + 1 /\ last'.op = "status") =>
            \E t \in pending' : t.module_id = last'.module_id /\ t.st = "created"]_vars

----------------------------------------------------------------------------
\* SpecIdent: one connection whose frames carry a module id or omit it

IdentModule == "A"

\* frames that omit the module id, one per handled type
AnonymousFrames ==
    { [type |-> "status",
       payload |-> [ids |-> EmptyDict, spool |-> [used_edges |-> 10], ato |-> EmptyDict]],
      [type |-> "config",
       payload |-> [ids |-> EmptyDict, spool |-> [full_edges |-> 100]]],
      [type |-> "alarm",
       payload |-> [ids |-> EmptyDict,
                    alarm |-> [code |-> Some("leak"), severity |-> None,
                               active |-> Some(TRUE), message |-> None]]],
      [type |-> "cycle_log",
       payload |-> [ids |-> EmptyDict, cycle_type |-> "pump_activation",
                    trigger |-> "manual"]],
      [type |-> "spool_activations",
       payload |-> [ids |-> EmptyDict, spool |-> EmptyDict, top |-> [activations |-> 2],
                    trig |-> EmptyDict]],
      [type |-> "ato_activations",
       payload |-> [ids |-> EmptyDict, ato |-> EmptyDict, top |-> [activations |-> 2],
                    trig |-> EmptyDict]] }

IdentFrames ==
    AnonymousFrames
    \cup { [type |-> "status",
            payload |-> [ids |-> Ids(IdentModule), spool |-> [full_edges |-> 100],
                         ato |-> EmptyDict]] }

IdentAccept ==
    /\ phase = "serving"
    /\ 1 \notin DOMAIN conns
    /\ conns' = ConnPut(1, [sock |-> "open", tracked |-> "", module_id |-> "",
                            queue |-> <<>>, ended |-> FALSE])
    /\ UNCHANGED <<store, db, pending, usageLog, cycleLog, snapshotLog, traceLog,
                   registry, phase, now, ops, last, hist>>

IdentReceive == \E c \in DOMAIN conns, f \in IdentFrames : ReceiveFrame(c, f)

IdentDispatch(max) == \E c \in DOMAIN conns : DispatchFrame(c, FALSE, max)

NextIdent ==
    \/ IdentAccept
    \/ IdentReceive
    \/ IdentDispatch(MaxIdentOps)

SpecIdent == Init /\ [][NextIdent]_vars

\* the module id the endpoint holds for connection c when it hands the head
\* of the queue to the handler ("" is None)
EndpointId(c) ==
    IF Head(conns[c].queue).module_id \notin {"", "unknown"}
    THEN Head(conns[c].queue).module_id
    ELSE conns[c].module_id

HeadType(c) == Head(conns[c].queue).type

\* the frame handled in this step was applied to module m: a cycle_log frame
\* appended its row under m, any other frame changed m's record now
AppliedTo(m, type) ==
    IF type = "cycle_log"
    THEN /\ Len(cycleLog') = Len(cycleLog) + 1
         /\ cycleLog'[Len(cycleLog')].module_id = m
    ELSE /\ m \in DOMAIN store'
         /\ store'[m].last_seen = now
         /\ \A i \in Len(cycleLog) + 1 .. Len(cycleLog') : cycleLog'[i].module_id = m
         /\ \A i \in Len(usageLog) + 1 .. Len(usageLog') : usageLog'[i].module_id = m

\* C14: a frame of a handled type other than config that carries no module
\* id, on a connection that has resolved none, is applied to the module
\* "unknown".
C14_UnknownIsProcessed ==
    [][\A c \in DOMAIN conns :
          (/\ TakesReceivedFrame(c)
           /\ EndpointId(c) \in {"", "unknown"}
           /\ Head(conns[c].queue).payload.ids = EmptyDict
           /\ HeadType(c) \in {"status", "cycle_log", "alarm", "spool_activations",
                               "ato_activations"})
          => AppliedTo("unknown", HeadType(c))]_vars

\* C15: a frame of a handled type that carries no module id, on a connection
\* that has resolved module id M, is applied to M, leaves the record of
\* "unknown" alone, and the connection still holds M afterwards.
C15_HintAttributesToModule ==
    [][\A c \in DOMAIN conns :
          (/\ TakesReceivedFrame(c)
           /\ EndpointId(c) \notin {"", "unknown"}
           /\ Head(conns[c].queue).payload.ids = EmptyDict
           /\ HeadType(c) \in {"status", "config", "cycle_log", "alarm",
                               "spool_activations", "ato_activations"})
          => /\ AppliedTo(EndpointId(c), HeadType(c))
             /\ "unknown" \in DOMAIN store' =>
                    "unknown" \in DOMAIN store /\ store'["unknown"] = store["unknown"]
             /\ conns'[c].module_id = EndpointId(c)]_vars

----------------------------------------------------------------------------
\* SpecRegistry: the ConnectionManager by itself.  A transport is
\* conns[c] = [app_state, sent]: the websocket's application_state and the
\* payloads transmitted on it.

RegistryModules == {"A", "B"}
RegistryConns == {1, 2}
RegistryPayloads == {"config", "control"}

\* `websocket and websocket.application_state == WebSocketState.CONNECTED`
transport_open_unchecked(module_id) == module_id \in DOMAIN registry

transport_open(module_id) ==
    /\ module_id \in DOMAIN registry
    /\ conns[registry[module_id]].app_state = "CONNECTED"

is_connected(module_id) == transport_open(module_id)

\* ConnectionManager.send: the Boolean it returns and the transports after it
send_returns(module_id) == transport_open(module_id)

send_transmits(module_id, payload) ==
    IF transport_open(module_id)
    THEN [conns EXCEPT ![registry[module_id]].sent = Append(@, payload)]
    ELSE conns

RegistryStep(op, module_id, payload, result) ==
    /\ ops < MaxRegistryOps
    /\ ops' = ops + 1
    /\ now' = now + 1
    /\ last' = [op |-> op, module_id |-> module_id, payload |-> payload,
                result |-> result, at |-> now]
    /\ UNCHANGED <<store, db, pending, usageLog, cycleLog, snapshotLog, traceLog,
                   phase, hist>>

\* a websocket is accepted
RegistryOpen ==
    \E c \in RegistryConns :
        /\ c \notin DOMAIN conns
        /\ conns' = ConnPut(c, [app_state |-> "CONNECTED", sent |-> <<>>])
        /\ UNCHANGED <<store, db, pending, usageLog, cycleLog, snapshotLog, traceLog,
                       registry, phase, now, ops, last, hist>>

\* the application closes the websocket
RegistryClose ==
    \E c \in DOMAIN conns :
        /\ conns[c].app_state = "CONNECTED"
        /\ conns' = [conns EXCEPT ![c].app_state = "DISCONNECTED"]
        /\ UNCHANGED <<store, db, pending, usageLog, cycleLog, snapshotLog, traceLog,
                       registry, phase, now, ops, last, hist>>

RegistryRegister ==
    \E m \in RegistryModules, c \in DOMAIN conns :
        /\ RegistryStep("register", m, "", TRUE)
        /\ registry' = register(m, c)
        /\ UNCHANGED conns

RegistryUnregister ==
    \E m \in RegistryModules :
        /\ RegistryStep("unregister", m, "", TRUE)
        /\ registry' = unregister(m)
        /\ UNCHANGED conns

RegistrySend ==
    \E m \in RegistryModules, payload \in RegistryPayloads :
        /\ RegistryStep("send", m, payload, send_returns(m))
        /\ conns' = send_transmits(m, payload)
        /\ UNCHANGED registry

NextRegistry ==
    \/ RegistryOpen
    \/ RegistryClose
    \/ RegistryRegister
    \/ RegistryUnregister
    \/ RegistrySend

SpecRegistry == Init /\ [][NextRegistry]_vars

SendStep == ops' = ops + 1 /\ last'.op = "send"

\* C16: send(id, payload) returns true exactly when id is registered to a
\* transport in the open state, and then the payload has been transmitted on
\* that transport and on no other; otherwise nothing is transmitted.  After
\* unregister(id), id is not connected.
C16_SendContract ==
    [][/\ SendStep =>
            LET m == last'.module_id
                live == m \in DOMAIN registry
                        /\ conns[registry[m]].app_state = "CONNECTED"
            IN  /\ last'.result = live
                /\ live => conns' = [conns EXCEPT ![registry[m]].sent =
                                                     Append(@, last'.payload)]
                /\ ~live => conns' = conns
       /\ (ops' = ops + 1 /\ last'.op = "unregister") =>
            /\ last'.module_id \notin DOMAIN registry'
            /\ ~(last'.module_id \in DOMAIN registry'
                 /\ conns'[registry'[last'.module_id]].app_state = "CONNECTED")]_vars

\* a send that returned true on the transport the module re-registered on,
\* the transport it was registered on before having received nothing
C16_Witness ==
    /\ last.op = "send"
    /\ last.result
    /\ registry[last.module_id] = 2
    /\ conns[2].sent = <<last.payload>>
    /\ 1 \in DOMAIN conns
    /\ conns[1].sent = <<>>
    /\ conns[1].app_state = "DISCONNECTED"

----------------------------------------------------------------------------
\* module_control.py: control requests.  A request is the dict of the fields
\* the caller set; every other field of ModuleControlRequest is None.

SPOOL_LENGTH_MIN_MM == 10000

\* the fields ModuleControlRequest declares (schemas/module.py)
SchemaFields ==
    { "ato_mode", "motor_run_time_ms", "roller_speed", "pump_speed", "pump_timeout_ms",
      "reset_spool", "spool_length_mm", "spool_media_thickness_um",
      "spool_core_diameter_mm", "spool_calibrate_start", "spool_calibrate_finish",
      "spool_calibrate_cancel", "ato_tank_capacity_ml", "ato_tank_level_ml",
      "ato_tank_refill", "heater_setpoint_c", "heater_hysteresis_span_c",
      "heater_setpoint_min_c", "heater_setpoint_max_c", "probe_tolerance_c" }

\* the fields apply_module_controls reads, in the order it reads them
ControlFieldOrder ==
    << "ato_mode", "motor_run_time_ms", "roller_speed", "pump_speed", "pump_timeout_ms",
       "reset_spool", "spool_length_mm", "spool_media_thickness_um",
       "spool_core_diameter_mm", "spool_calibrate_start", "spool_calibrate_finish",
       "spool_calibrate_cancel", "ato_tank_capacity_ml", "ato_tank_level_ml",
       "ato_tank_refill", "heater_setpoint_c", "heater_hysteresis_span_c",
       "probe_tolerance_c", "probe_timeout_s", "runaway_delta_c", "max_heater_on_min",
       "stuck_relay_delta_c", "stuck_relay_window_s", "alarm_snooze",
       "heater_setpoint_min_c", "heater_setpoint_max_c" >>

\* fields tested for truth (`if request.x:`) and the command each sends
FlagCommands ==
    [reset_spool |-> "spool_reset", spool_calibrate_start |-> "spool_calibrate_start",
     spool_calibrate_cancel |-> "spool_calibrate_cancel",
     ato_tank_refill |-> "ato_tank_refill", alarm_snooze |-> "alarm_snooze"]

\* set_parameter names that differ from the request field
ParameterNames ==
    [motor_run_time_ms |-> "motor_runtime", roller_speed |-> "motor_speed",
     heater_setpoint_c |-> "setpoint_c", heater_hysteresis_span_c |-> "hysteresis_span_c"]

ATO_MODE_MAP == [auto |-> 0, manual |-> 1, paused |-> 2]

\* the command envelope payload built for a field that is set
build_command(field, value) ==
    IF field = "ato_mode"
        THEN [command |-> "set_ato_mode", name |-> "mode", value |-> ATO_MODE_MAP[value]]
    ELSE IF field \in DOMAIN FlagCommands
        THEN [command |-> FlagCommands[field], name |-> "", value |-> 0]
    ELSE IF field = "spool_calibrate_finish"
        THEN [command |-> "spool_calibrate_finish", name |-> "roll_length_mm",
              value |-> value]
    ELSE [command |-> "set_parameter",
          name |-> IF field \in DOMAIN ParameterNames THEN ParameterNames[field]
                   ELSE field,
          value |-> value]

\* the field makes apply_module_controls append a command
FieldRequested(request, field) ==
    /\ field \in DOMAIN request
    /\ field \in DOMAIN FlagCommands => request[field] = TRUE

finish_rejected(request) ==
    /\ "spool_calibrate_finish" \in DOMAIN request
    /\ request.spool_calibrate_finish # 0
    /\ request.spool_calibrate_finish < SPOOL_LENGTH_MIN_MM

\* lines 54-152: the walk over the fields.  Reading an attribute the request
\* class does not declare raises AttributeError.
RECURSIVE collect_commands(_, _, _, _)
collect_commands(request, fields, declared, commands) ==
    IF fields = <<>> THEN [outcome |-> "collected", commands |-> commands]
    ELSE
    LET field == Head(fields)
    IN  IF field \notin declared
        THEN [outcome |-> "attribute_error", commands |-> <<>>]
        ELSE IF field = "spool_calibrate_finish" /\ finish_rejected(request)
        THEN [outcome |-> "bad_finish", commands |-> <<>>]
        ELSE collect_commands(request, Tail(fields), declared,
                 IF FieldRequested(request, field)
                 THEN Append(commands, build_command(field, request[field]))
                 ELSE commands)

\* apply_module_controls: the outcome, the number of commands sent, and the
\* payloads transmitted, in order
apply_module_controls(module_id, request) ==
    IF ~is_connected(module_id)
    THEN [outcome |-> "not_connected", sent |-> 0, transmitted |-> <<>>]
    ELSE
    LET walk == collect_commands(request, ControlFieldOrder, SchemaFields, <<>>)
    IN  IF walk.outcome # "collected"
        THEN [outcome |-> walk.outcome, sent |-> 0, transmitted |-> <<>>]
        ELSE IF walk.commands = <<>>
        THEN [outcome |-> "no_control_values", sent |-> 0, transmitted |-> <<>>]
        ELSE IF ~send_returns(module_id)
        THEN [outcome |-> "not_ready", sent |-> 0, transmitted |-> <<>>]
        ELSE [outcome |-> "sent", sent |-> Len(walk.commands),
              transmitted |-> walk.commands]

----------------------------------------------------------------------------
\* SpecControl: transports, registrations and control requests

ControlRequests ==
    { EmptyDict,
      [reset_spool |-> FALSE],
      [ato_mode |-> "auto"],
      [spool_calibrate_finish |-> 0],
      [spool_calibrate_finish |-> 5000],
      [spool_calibrate_finish |-> 10000],
      [ato_mode |-> "manual", spool_calibrate_finish |-> 5000],
      [roller_speed |-> 100, reset_spool |-> TRUE] }

Control ==
    \E m \in RegistryModules, request \in ControlRequests :
        LET result == apply_module_controls(m, request)
        IN  /\ ops < MaxControlOps
            /\ RegistryStep("control", m, request, result)
            /\ conns' = IF result.transmitted = <<>> THEN conns
                        ELSE [conns EXCEPT ![registry[m]].sent = @ \o result.transmitted]
            /\ UNCHANGED registry

NextControl ==
    \/ RegistryOpen
    \/ RegistryClose
    \/ RegistryRegister
    \/ Control

SpecControl == Init /\ [][NextControl]_vars

ControlStep == ops' = ops + 1 /\ last'.op = "control"

ControlLive ==
    /\ last'.module_id \in DOMAIN registry
    /\ conns[registry[last'.module_id]].app_state = "CONNECTED"

\* the commands a request asks for, one per requested parameter change, in
\* the fixed order of the fields
RECURSIVE RequestedCommands(_, _)
RequestedCommands(request, fields) ==
    IF fields = <<>> THEN <<>>
    ELSE (IF FieldRequested(request, Head(fields))
          THEN <<build_command(Head(fields), request[Head(fields)])>> ELSE <<>>)
         \o RequestedCommands(request, Tail(fields))

\* C17: a control request for a module without a live connection is
\* rejected as not connected; for a connected module, a request whose
\* spool_calibrate_finish is neither 0 nor at least the minimum length is
\* rejected for that, and a request that asks for no command is rejected
\* with "no control values supplied"; a rejected request transmits nothing.
C17_RejectedSendsNothing ==
    [][ControlStep =>
          LET request == last'.payload
              result  == last'.result
          IN  /\ ~ControlLive =>
                    result.outcome = "not_connected" /\ conns' = conns
              /\ (ControlLive /\ finish_rejected(request)) =>
                    result.outcome = "bad_finish" /\ conns' = conns
              /\ (/\ ControlLive
                  /\ ~finish_rejected(request)
                  /\ RequestedCommands(request, ControlFieldOrder) = <<>>) =>
                    result.outcome = "no_control_values" /\ conns' = conns]_vars

\* C18: a control request for a connected module that asks for k >= 1
\* commands transmits them in the fixed order and succeeds with the count
\* of delivered commands when at least one was delivered, and fails as
\* "module not ready" only when none was.
C18_PartialDelivery ==
    [][ControlStep =>
          LET request == last'.payload
              result  == last'.result
              asked   == RequestedCommands(request, ControlFieldOrder)
          IN  (ControlLive /\ ~finish_rejected(request) /\ asked # <<>>) =>
                  /\ result.outcome \in {"sent", "not_ready"}
                  /\ result.outcome = "not_ready" <=> result.sent = 0
                  /\ result.outcome = "sent" =>
                        /\ result.sent = Len(asked)
                        /\ conns'[registry[last'.module_id]].sent =
                               conns[registry[last'.module_id]].sent \o asked]_vars

----------------------------------------------------------------------------
\* SpecHandshake: what the gateway sends on a module connection.  The
\* connection records of this specification also hold
\*   conns[c].app_state  the websocket's application_state
\*   conns[c].sent       the frames the gateway has sent on the connection
\*   conns[c].greeted    how many of the opening requests have been sent

DEFAULT_CONFIG ==
    [motor  |-> [max_speed |-> 255, run_time_ms |-> 5000, ramp_up_ms |-> 1000,
                 ramp_down_ms |-> 1000],
     ato    |-> [mode |-> 0, timeout_ms |-> 300000, pump_running |-> FALSE,
                 pump_speed |-> 255, timeout_alarm |-> FALSE],
     system |-> [chirp_enabled |-> TRUE, pump_timeout_ms |-> 120000,
                 startup_delay_ms |-> 5000]]

build_config_response(module_id) ==
    [type |-> "config", module |-> module_id, motor |-> DEFAULT_CONFIG.motor,
     ato |-> DEFAULT_CONFIG.ato, system |-> DEFAULT_CONFIG.system]

GreetingFramesSwapped ==
    << [type |-> "module_manifest_request"], [type |-> "config_request"] >>

\* the requests websocket_endpoint sends after accept(), in order
GreetingFrames ==
    << [type |-> "config_request"], [type |-> "module_manifest_request"] >>

HandshakeModule == "A"

HandshakeFrames ==
    { [type |-> "status",
       payload |-> [ids |-> Ids(HandshakeModule), spool |-> EmptyDict, ato |-> EmptyDict]],
      [type |-> "config_request", payload |-> [ids |-> Ids(HandshakeModule)]],
      [type |-> "config_request", payload |-> [ids |-> EmptyDict]] }

\* websocket.accept()
HandshakeAccept ==
    \E c \in 1..MaxConns :
        /\ phase = "serving"
        /\ c \notin DOMAIN conns
        /\ conns' = ConnPut(c, [sock |-> "open", app_state |-> "CONNECTED",
                                tracked |-> "", module_id |-> "", queue |-> <<>>,
                                ended |-> FALSE, sent |-> <<>>, greeted |-> 0])
        /\ UNCHANGED <<store, db, pending, usageLog, cycleLog, snapshotLog, traceLog,
                       registry, phase, now, ops, last, hist>>

\* the next send_json of the opening requests; after the last one the
\* endpoint creates the queue and the receiver task
HandshakeGreet ==
    \E c \in DOMAIN conns :
        /\ conns[c].greeted < Len(GreetingFrames)
        /\ conns' = [conns EXCEPT ![c].sent = Append(@, GreetingFrames[conns[c].greeted + 1]),
                                  ![c].greeted = @ + 1]
        /\ UNCHANGED <<store, db, pending, usageLog, cycleLog, snapshotLog, traceLog,
                       registry, phase, now, ops, last, hist>>

HandshakeReceive ==
    \E c \in DOMAIN conns, f \in HandshakeFrames :
        /\ conns[c].greeted = Len(GreetingFrames)
        /\ ReceiveFrame(c, f)

\* one iteration of the endpoint loop: status and config_request frames
HandshakeDispatch(max) ==
    \E c \in DOMAIN conns :
        /\ ~conns[c].ended
        /\ conns[c].queue # <<>>
        /\ LET frame     == Head(conns[c].queue)
               module_id == EndpointId(c)
               status_id == resolve_module_id(frame.payload, "unknown")
               popped    == [conns EXCEPT ![c].queue = Tail(@)]
           IN
           IF frame.type = "status"
           THEN /\ Handled("status", status_id, frame.payload, max)
                /\ upsert_module_status(frame.payload)
                /\ registry' = register(status_id, c)
                /\ conns' = [popped EXCEPT ![c].module_id = status_id]
           ELSE IF frame.type = "config_request" /\ module_id # ""
           THEN /\ Handled("config_request", module_id, EmptyDict, max)
                /\ conns' = [[popped EXCEPT ![c].module_id = module_id] EXCEPT
                                ![IF transport_open(module_id) THEN registry[module_id]
                                  ELSE c].sent =
                                    IF transport_open(module_id)
                                    THEN Append(@, build_config_response(module_id))
                                    ELSE @]
                /\ UNCHANGED <<store, db, pending, usageLog, cycleLog, snapshotLog,
                               registry>>
           ELSE /\ Handled("unhandled", module_id, EmptyDict, max)
                /\ conns' = popped
                /\ UNCHANGED <<store, db, pending, usageLog, cycleLog, snapshotLog,
                               registry>>
        /\ UNCHANGED <<traceLog, phase>>

NextHandshake ==
    \/ HandshakeAccept
    \/ HandshakeGreet
    \/ HandshakeReceive
    \/ HandshakeDispatch(MaxHandshakeOps)

SpecHandshake == Init /\ [][NextHandshake]_vars

OpeningRequests(c) ==
    SelectSeq(conns[c].sent,
              LAMBDA f : f.type \in {"config_request", "module_manifest_request"})

\* C19: on every connection the gateway has sent config_request and then
\* module_manifest_request, each once and as its first two frames, before
\* any inbound frame of the connection is received or handled; it never
\* sends either of them again.
C19_GreetingBeforeFrames ==
    \A c \in DOMAIN conns :
        /\ OpeningRequests(c) \in { <<>>,
                                   <<[type |-> "config_request"]>>,
                                   <<[type |-> "config_request"],
                                     [type |-> "module_manifest_request"]>> }
        /\ (conns[c].queue # <<>> \/ conns[c].tracked # "" \/ conns[c].module_id # "") =>
              /\ Len(conns[c].sent) >= 2
              /\ SubSeq(conns[c].sent, 1, 2) = <<[type |-> "config_request"],
                                                 [type |-> "module_manifest_request"]>>
              /\ Len(OpeningRequests(c)) = 2

\* a connection that was greeted, had frames handled and got a config reply
C19_Witness ==
    \E c \in DOMAIN conns :
        /\ conns[c].module_id = HandshakeModule
        /\ Len(conns[c].sent) = 3
        /\ conns[c].sent[3].type = "config"
        /\ last.op = "config_request"

\* C20: when the endpoint of a connection handles a config_request frame
\* that its module sent, the config frame with the default parameter tree
\* is sent on that connection.
C20_ConfigReplyOnSameConnection ==
    [][\A c \in DOMAIN conns :
          (TakesReceivedFrame(c) /\ HeadType(c) = "config_request") =>
              /\ Len(conns'[c].sent) = Len(conns[c].sent) + 1
              /\ conns'[c].sent[Len(conns'[c].sent)].type = "config"
              /\ conns'[c].sent[Len(conns'[c].sent)].motor = DEFAULT_CONFIG.motor
              /\ conns'[c].sent[Len(conns'[c].sent)].ato = DEFAULT_CONFIG.ato
              /\ conns'[c].sent[Len(conns'[c].sent)].system = DEFAULT_CONFIG.system]_vars

----------------------------------------------------------------------------
\* SpecTrace: what the receiver writes to the trace log.  settings.ws_trace is
\* fixed for the life of the process; the connection records of this
\* specification carry it as conns[c].ws_trace, the same on every connection.

TraceFrames == { f \in IdentFrames : f.type \in {"status", "alarm"} }

\* websocket_endpoint up to the creation of the receiver task: the two
\* opening requests are traced as tx rows when the setting is on
TraceAccept ==
    \E c \in 1..MaxConns, ws_trace \in BOOLEAN :
        /\ phase = "serving"
        /\ c \notin DOMAIN conns
        /\ \A d \in DOMAIN conns : conns[d].ws_trace = ws_trace
        /\ conns' = ConnPut(c, [sock |-> "open", tracked |-> "", module_id |-> "",
                                queue |-> <<>>, ended |-> FALSE, ws_trace |-> ws_trace])
        /\ traceLog' = maybe_record_ws_trace(
                           maybe_record_ws_trace(traceLog, "tx", "config_request",
                                                 EmptyDict, "", ws_trace, FALSE),
                           "tx", "module_manifest_request", EmptyDict, "", ws_trace, FALSE)
        /\ UNCHANGED <<store, db, pending, usageLog, cycleLog, snapshotLog,
                       registry, phase, now, ops, last, hist>>

TraceReceive ==
    \E c \in DOMAIN conns, f \in TraceFrames : ReceiveFrameTraced(c, f, conns[c].ws_trace)

TraceDispatch(max) == \E c \in DOMAIN conns : DispatchFrame(c, FALSE, max)

NextTrace ==
    \/ TraceAccept
    \/ TraceReceive
    \/ TraceDispatch(MaxTraceOps)

SpecTrace == Init /\ [][NextTrace]_vars

\* the receiver of connection c queued a frame in this step
ReceivedInStep(c) ==
    /\ c \in DOMAIN conns'
    /\ Len(conns'[c].queue) = Len(conns[c].queue) + 1
    /\ conns'[c].queue[Len(conns'[c].queue)].received

\* C21: the step in which the receiver queues a frame (the frame is handled
\* only by a later step) appends exactly one rx row with the connection's
\* resolved module id when the frame is a status frame or tracing is on, and
\* appends nothing for a frame of another type when tracing is off.
C21_StatusAlwaysTraced ==
    [][\A c \in DOMAIN conns : ReceivedInStep(c) =>
          LET f == conns'[c].queue[Len(conns'[c].queue)]
          IN  IF f.type = "status" \/ conns[c].ws_trace
              THEN traceLog' = Append(traceLog,
                                      [timestamp |-> now, direction |-> "rx",
                                       module_id |-> conns'[c].tracked,
                                       type |-> f.type, payload |-> f.payload])
              ELSE traceLog' = traceLog]_vars

\* with tracing off, a status frame of a resolved module is in the trace log
\* while it still waits in the queue, after an untraced alarm frame
C21_Witness ==
    \E c \in DOMAIN conns :
        /\ ~conns[c].ws_trace
        /\ last.op = "alarm"
        /\ conns[c].queue # <<>>
        /\ Head(conns[c].queue).type = "status"
        /\ Len(traceLog) = 1
        /\ traceLog[1].direction = "rx"
        /\ traceLog[1].type = "status"
        /\ traceLog[1].module_id = IdentModule

----------------------------------------------------------------------------
\* api/routes.py: the classification derived from a module record at read
\* time.  A subsystem entry is [key, kind]; kind stands for the first of the
\* entry's kind, type and category fields and is "" when none is present.
\* Labels and badges are left out.

MAX_DECLARED_SUBSYSTEMS == 8
ALLOWED_SUBSYSTEM_KINDS == {"roller", "ato"}

CATEGORY_KIND_MAP ==
    [filter |-> "roller", roller |-> "roller", spool |-> "roller", media |-> "roller",
     ato |-> "ato", pump |-> "ato", reservoir |-> "ato", refill |-> "ato"]

DEFAULT_SUBSYSTEM_PAYLOADS == << [key |-> "roller", kind |-> "roller"],
                                 [key |-> "ato", kind |-> "ato"] >>

RECURSIVE FirstKindCandidate(_)
FirstKindCandidate(candidates) ==
    IF candidates = <<>> THEN "roller"
    ELSE IF Head(candidates) \in ALLOWED_SUBSYSTEM_KINDS THEN Head(candidates)
    ELSE IF Head(candidates) \in DOMAIN CATEGORY_KIND_MAP
         THEN CATEGORY_KIND_MAP[Head(candidates)]
    ELSE FirstKindCandidate(Tail(candidates))

\* _resolve_subsystem_kind (entries carry no capabilities)
resolve_subsystem_kind(entry) == FirstKindCandidate(<<entry.kind, entry.key>>)

normalize_subsystem_entry(entry) ==
    [key |-> entry.key, kind |-> resolve_subsystem_kind(entry)]

\* _normalize_subsystems of a list of entries (every entry has a key)
normalize_subsystems(raw) ==
    LET kept == SubSeq(raw, 1, Min(Len(raw), MAX_DECLARED_SUBSYSTEMS))
    IN  [i \in 1..Len(kept) |-> normalize_subsystem_entry(kept[i])]

\* _extract_manifest_submodules: None, or Some(list)
extract_manifest_submodules(module) ==
    LET of(payload) == IF "module_manifest" \in DOMAIN payload
                       THEN payload.module_manifest.submodules ELSE None
    IN  IF of(module.config_payload) # None THEN of(module.config_payload)
        ELSE of(module.status_payload)

module_manifest_declares_kind(module, target_kind) ==
    LET submodules == extract_manifest_submodules(module)
    IN  /\ submodules # None
        /\ \E i \in 1..Len(normalize_subsystems(submodules[1])) :
              normalize_subsystems(submodules[1])[i].kind = target_kind

spool_payload_has_signals(payload) ==
    DOMAIN payload \cap {"used_edges", "remaining_edges", "percent_remaining",
                         "full_edges", "total_length_mm", "length_mm",
                         "activations"} # {}

ato_payload_has_signals(payload) ==
    DOMAIN payload \cap {"pump_running", "manual_mode", "timeout_alarm", "pump_speed",
                         "tank_level_ml", "tank_capacity_ml"} # {}

module_has_spool_signals(module) ==
    \/ spool_payload_has_signals(module.status_payload.spool)
    \/ spool_payload_has_signals(module.config_payload.spool)

module_has_ato_signals(module) ==
    \/ ("ato" \in DOMAIN module.status_payload
        /\ ato_payload_has_signals(module.status_payload.ato))
    \/ ("ato" \in DOMAIN module.config_payload
        /\ ato_payload_has_signals(module.config_payload.ato))

\* the module ids whose text contains "heat"
HeatNamed == {"heater1"}

\* _is_heater_module (no label is set, no heaters collection is sent)
is_heater_module(module_id, module) ==
    \/ module_id \in HeatNamed
    \/ ("heater" \in DOMAIN module.status_payload /\ Truthy(module.status_payload.heater))

infer_subsystems_from_payload(module_id, module) ==
    LET subsystems ==
            (IF module_has_spool_signals(module)
             THEN <<DEFAULT_SUBSYSTEM_PAYLOADS[1]>> ELSE <<>>)
            \o (IF module_has_ato_signals(module)
                THEN <<DEFAULT_SUBSYSTEM_PAYLOADS[2]>> ELSE <<>>)
    IN  IF subsystems # <<>> THEN subsystems
        ELSE IF is_heater_module(module_id, module)
             THEN << [key |-> "heater", kind |-> "heater"] >>
        ELSE <<>>

derive_module_subsystems(module_id, module) ==
    LET manifest_submodules == extract_manifest_submodules(module)
        declared(payload)   == IF "subsystems" \in DOMAIN payload
                               THEN normalize_subsystems(payload.subsystems) ELSE <<>>
        inferred            == infer_subsystems_from_payload(module_id, module)
    IN  IF manifest_submodules # None /\ normalize_subsystems(manifest_submodules[1]) # <<>>
        THEN normalize_subsystems(manifest_submodules[1])
        ELSE IF declared(module.config_payload) # <<>> THEN declared(module.config_payload)
        ELSE IF declared(module.status_payload) # <<>> THEN declared(module.status_payload)
        ELSE IF inferred # <<>> THEN inferred
        ELSE DEFAULT_SUBSYSTEM_PAYLOADS

infer_module_type(module_id, module) ==
    IF module_manifest_declares_kind(module, "heater") \/ is_heater_module(module_id, module)
    THEN "Heater"
    ELSE IF module_manifest_declares_kind(module, "filter") \/ module_has_spool_signals(module)
    THEN "Filter"
    ELSE IF module_manifest_declares_kind(module, "ato") \/ module_has_ato_signals(module)
    THEN "ATO"
    ELSE "Sensor"

----------------------------------------------------------------------------
\* SpecDerive: status, config and module_manifest frames of two modules, one
\* of them named like a heater, and the classification read after each.

DeriveModules == {"A"} \cup HeatNamed

DeriveEntryLists ==
    { << [key |-> "sump.heater", kind |-> "heater"] >>,
      << [key |-> "sump.filter", kind |-> "filter"] >>,
      << [key |-> "sump.ato", kind |-> "ato"] >>,
      << [key |-> "sump.ato", kind |-> "ato"], [key |-> "sump.filter", kind |-> "filter"] >> }

DeriveManifestPayloads ==
    { [ids |-> EmptyDict, submodules |-> sub] :
          sub \in {None, Some(<<>>)} \cup { Some(l) : l \in DeriveEntryLists } }

DeriveConfigPayloads ==
    { [ids |-> EmptyDict, spool |-> EmptyDict],
      [ids |-> EmptyDict, spool |-> [full_edges |-> 100]],
      [ids |-> EmptyDict, spool |-> EmptyDict,
       subsystems |-> << [key |-> "roller", kind |-> "roller"] >>] }

DeriveStatusPayloads(m) ==
    { [ids |-> Ids(m), spool |-> EmptyDict, ato |-> EmptyDict],
      [ids |-> Ids(m), spool |-> [used_edges |-> 10], ato |-> EmptyDict],
      [ids |-> Ids(m), spool |-> EmptyDict, ato |-> [pump_running |-> FALSE]],
      [ids |-> Ids(m), spool |-> EmptyDict, ato |-> EmptyDict,
       heater |-> [setpoint_c |-> 25]],
      [ids |-> Ids(m), spool |-> EmptyDict, ato |-> EmptyDict,
       subsystems |-> << [key |-> "ato", kind |-> "ato"] >>] }

DeriveStatus ==
    \E m \in DeriveModules : \E payload \in DeriveStatusPayloads(m) :
        /\ Handled("status", m, payload, MaxDeriveOps)
        /\ upsert_module_status(payload)
        /\ BridgeUnchanged

DeriveConfig ==
    \E m \in DeriveModules, payload \in DeriveConfigPayloads :
        /\ Handled("config", m, payload, MaxDeriveOps)
        /\ upsert_module_config(m, payload)
        /\ BridgeUnchanged

DeriveManifest ==
    \E m \in DeriveModules, payload \in DeriveManifestPayloads :
        /\ Handled("module_manifest", m, payload, MaxDeriveOps)
        /\ upsert_module_manifest(m, payload)
        /\ BridgeUnchanged

NextDerive ==
    \/ DeriveStatus
    \/ DeriveConfig
    \/ DeriveManifest

SpecDerive == Init /\ [][NextDerive]_vars

\* the submodules list of the manifest applied in this step, <<>> when the
\* step applies none or the manifest has no list
AppliedSubmodules ==
    IF last'.op = "module_manifest" /\ last'.payload.submodules # None
    THEN last'.payload.submodules[1] ELSE <<>>

\* the manifest stored for module m declares a non-empty submodules list
HoldsManifest(m) ==
    /\ m \in DOMAIN store
    /\ "module_manifest" \in DOMAIN store[m].config_payload
    /\ store[m].config_payload.module_manifest.submodules # None
    /\ store[m].config_payload.module_manifest.submodules[1] # <<>>

\* C22: the step that applies a manifest with a non-empty submodules list to
\* a module makes the derived subsystems the normalized manifest entries, in
\* manifest order; and every later step that applies no manifest to the
\* module leaves the derived subsystems those of its stored manifest.
C22_ManifestSubsystemsWin ==
    [][\A m \in DeriveModules :
          /\ (last'.op = "module_manifest" /\ last'.module_id = m
              /\ AppliedSubmodules # <<>>) =>
                 derive_module_subsystems(m, store'[m]) =
                     normalize_subsystems(AppliedSubmodules)
          /\ (HoldsManifest(m) /\ ~(last'.op = "module_manifest" /\ last'.module_id = m)) =>
                 derive_module_subsystems(m, store'[m]) =
                     normalize_subsystems(
                         store[m].config_payload.module_manifest.submodules[1])]_vars

\* the kinds the stored manifest of a module declares, as declared
DeclaredKinds(module) ==
    LET submodules == extract_manifest_submodules(module)
    IN  IF submodules = None THEN {}
        ELSE { submodules[1][i].kind : i \in 1..Len(submodules[1]) }

\* the moduleType as the specification words it
ClaimedModuleType(module_id, module) ==
    IF "heater" \in DeclaredKinds(module) THEN "Heater"
    ELSE IF "filter" \in DeclaredKinds(module) THEN "Filter"
    ELSE IF "ato" \in DeclaredKinds(module) THEN "ATO"
    ELSE IF is_heater_module(module_id, module) THEN "Heater"
    ELSE IF module_has_spool_signals(module) THEN "Filter"
    ELSE IF module_has_ato_signals(module) THEN "ATO"
    ELSE "Sensor"

\* C23: the derived moduleType of every module record is the kind its
\* manifest declares (heater, filter, ato) and, when the manifest declares
\* none, Heater, Filter, ATO or Sensor by the heuristic signals in that order.
C23_ModuleTypePriority ==
    \A m \in DOMAIN store :
        infer_module_type(m, store[m]) = ClaimedModuleType(m, store[m])

----------------------------------------------------------------------------
\* SpecNormalize: the receiver normalizes wire frames.  A wire frame is the
\* JSON object as sent: a dict from keys to strings, with the nested object
\* under "payload" when the frame is enveloped.  "" is a blank string.

\* _build_envelope_defaults
build_envelope_defaults(message) ==
    LET present(key) == key \in DOMAIN message /\ message[key] # ""
        ident    == IF present("module_id")
                    THEN [module |-> message.module_id, module_id |-> message.module_id]
                    ELSE EmptyDict
        submod   == IF present("submodule_id")
                    THEN [submodule_id |-> message.submodule_id] ELSE EmptyDict
        protocol == IF present("protocol")
                    THEN [protocol |-> message.protocol] ELSE EmptyDict
        sent     == IF present("sent_at")
                    THEN [sent_at |-> message.sent_at, timestamp |-> message.sent_at,
                          recorded_at |-> message.sent_at]
                    ELSE EmptyDict
    IN  DictMerge(DictMerge(DictMerge(ident, submod), protocol), sent)

apply_envelope_defaults_overwriting(target, defaults) == DictMerge(target, defaults)

\* _apply_envelope_defaults: target.setdefault(key, value) for every default
apply_envelope_defaults(target, defaults) == DictMerge(defaults, target)

\* _normalize_incoming_frame: the normalized payload (the type is message.type)
normalize_incoming_frame(message) ==
    IF "payload" \notin DOMAIN message THEN message
    ELSE IF message.type = "alarm"
    THEN DictMerge(build_envelope_defaults(message), [alarm |-> message.payload])
    ELSE apply_envelope_defaults(message.payload, build_envelope_defaults(message))

WireMessages ==
    { DictMerge(DictMerge(DictMerge(DictMerge([type |-> t], ident), sent), proto), nested) :
        t \in {"status", "alarm"},
        ident \in {EmptyDict, [module_id |-> ""], [module_id |-> "A"]},
        sent \in {EmptyDict, [sent_at |-> "t1"]},
        proto \in {EmptyDict, [protocol |-> "v2", submodule_id |-> "s1"]},
        nested \in {EmptyDict,
                    [payload |-> [code |-> "leak"]],
                    [payload |-> [module_id |-> "B", timestamp |-> "t0"]]} }

\* one iteration of _receive_module_frames on a wire frame (ws_trace off)
NormalizeReceive ==
    \E c \in DOMAIN conns, message \in WireMessages :
        LET normalized  == normalize_incoming_frame(message)
            resolved_id == resolve_module_id(
                               [ids |-> IF Truthy(normalized) THEN normalized ELSE message],
                               conns[c].tracked)
            module_id   == IF resolved_id \notin {"", "unknown"} THEN resolved_id
                           ELSE conns[c].tracked
        IN  /\ conns[c].sock = "open"
            /\ ~conns[c].ended
            /\ Len(conns[c].queue) < MaxNormalizeQueue
            /\ traceLog' = maybe_record_ws_trace(traceLog, "rx", message.type, message,
                                                 module_id, FALSE, message.type = "status")
            /\ conns' = ConnPut(c, [conns[c] EXCEPT
                            !.tracked = module_id,
                            !.queue = Append(@, [type |-> message.type,
                                                 payload |-> normalized,
                                                 raw |-> message,
                                                 module_id |-> module_id,
                                                 received |-> TRUE])])
            /\ UNCHANGED <<store, db, pending, usageLog, cycleLog, snapshotLog,
                           registry, phase, now, ops, last, hist>>

NextNormalize ==
    \/ IdentAccept
    \/ NormalizeReceive

SpecNormalize == Init /\ [][NextNormalize]_vars

EnvelopeDefaultKeys ==
    {"module", "module_id", "submodule_id", "protocol", "sent_at", "timestamp",
     "recorded_at"}

\* the envelope field a default is derived from
EnvelopeSource(key) ==
    IF key = "module" THEN "module_id"
    ELSE IF key \in {"timestamp", "recorded_at"} THEN "sent_at"
    ELSE key

\* out holds the envelope-derived default for exactly the default keys that
\* `taken` does not hold and whose envelope field is a non-blank string
DefaultsFilled(message, out, taken) ==
    \A key \in EnvelopeDefaultKeys \ taken :
        IF EnvelopeSource(key) \in DOMAIN message /\ message[EnvelopeSource(key)] # ""
        THEN key \in DOMAIN out /\ out[key] = message[EnvelopeSource(key)]
        ELSE key \notin DOMAIN out

\* C24: every queued frame's normalized payload is the wire frame itself when
\* it has no nested payload object; for an enveloped alarm frame the envelope
\* defaults plus the nested object under "alarm"; for any other enveloped
\* frame the nested object, every field of it unchanged, plus the envelope
\* defaults for the keys the nested object lacks.
C24_NormalizationShape ==
    \A c \in DOMAIN conns : \A i \in 1..Len(conns[c].queue) :
        LET message == conns[c].queue[i].raw
            out     == conns[c].queue[i].payload
        IN  IF "payload" \notin DOMAIN message THEN out = message
            ELSE IF message.type = "alarm"
            THEN /\ DOMAIN out \subseteq EnvelopeDefaultKeys \cup {"alarm"}
                 /\ out.alarm = message.payload
                 /\ DefaultsFilled(message, out, {})
            ELSE /\ DOMAIN out \subseteq EnvelopeDefaultKeys \cup DOMAIN message.payload
                 /\ \A key \in DOMAIN message.payload : out[key] = message.payload[key]
                 /\ DefaultsFilled(message, out, DOMAIN message.payload)

\* an enveloped status frame whose nested object and envelope both name a
\* module id and a timestamp, queued after an enveloped alarm frame
C24_Witness ==
    \E c \in DOMAIN conns :
        /\ Len(conns[c].queue) = 2
        /\ conns[c].queue[1].type = "alarm"
        /\ "payload" \in DOMAIN conns[c].queue[1].raw
        /\ "module_id" \in DOMAIN conns[c].queue[1].payload
        /\ conns[c].queue[2].type = "status"
        /\ "payload" \in DOMAIN conns[c].queue[2].raw
        /\ "module_id" \in DOMAIN conns[c].queue[2].raw.payload
        /\ "module_id" \in DOMAIN conns[c].queue[2].raw
        /\ "sent_at" \in DOMAIN conns[c].queue[2].raw
        /\ conns[c].queue[2].raw.module_id = "A"
        /\ conns[c].queue[2].payload.module_id = "B"
        /\ conns[c].queue[2].payload.sent_at = "t1"

----------------------------------------------------------------------------
\* SpecRetention: record_ws_trace under a retention setting.  The setting
\* (settings.ws_trace_retention_days) is fixed when the process starts; this
\* specification keeps it in last.retention_days.  The trace table outlives
\* the process, so a run may start on a table that is already full.

HOURS_PER_DAY == 24

RetentionSettings == {0, 1, 2}

prune_age_never(rows, retention_days) == rows

\* _prune, the calendar-age part: RETENTION_DAYS = max(0, setting)
prune_age(rows, retention_days) ==
    LET RETENTION_DAYS == Max(0, retention_days)
    IN  IF RETENTION_DAYS > 0
        THEN SelectSeq(rows,
                       LAMBDA r : ~(r.timestamp < now - RETENTION_DAYS * HOURS_PER_DAY))
        ELSE rows

\* record_ws_trace with both parts of _prune
record_ws_trace_retained(rows, direction, type, payload, module_id, retention_days) ==
    prune_age(record_ws_trace(rows, direction, type, payload, module_id), retention_days)

\* a trace table holding MAX_TRACE_ENTRIES rows of an earlier run
FullTrace ==
    [i \in 1..MAX_TRACE_ENTRIES |->
        [timestamp |-> 1, direction |-> "rx", module_id |-> "", type |-> "status",
         payload |-> EmptyDict]]

InitRetention ==
    /\ store = EmptyDict
    /\ db = EmptyDict
    /\ pending = {}
    /\ usageLog = <<>>
    /\ cycleLog = <<>>
    /\ snapshotLog = <<>>
    /\ traceLog \in {<<>>, FullTrace}
    /\ registry = EmptyDict
    /\ conns = EmptyDict
    /\ phase = "serving"
    /\ now = 1
    /\ ops = 0
    /\ \E r \in RetentionSettings :
          last = [op |-> "init", at |-> 0, retention_days |-> r]
    /\ hist = [alarms |-> EmptyDict, counters |-> EmptyDict]

\* one call of record_ws_trace
RetentionRecord ==
    \E direction \in {"rx", "tx"} :
        /\ ops < MaxRetentionOps
        /\ ops' = ops + 1
        /\ traceLog' = record_ws_trace_retained(traceLog, direction, "status", EmptyDict,
                                                IdentModule, last.retention_days)
        /\ last' = [last EXCEPT !.op = "record_ws_trace", !.at = now]
        /\ UNCHANGED <<store, db, pending, usageLog, cycleLog, snapshotLog,
                       registry, conns, phase, now, hist>>

\* a day of wall-clock time goes by
RetentionDayPasses ==
    /\ ops < MaxRetentionOps
    /\ ops' = ops + 1
    /\ now' = now + HOURS_PER_DAY
    /\ last' = [last EXCEPT !.op = "time", !.at = now]
    /\ UNCHANGED <<store, db, pending, usageLog, cycleLog, snapshotLog, traceLog,
                   registry, conns, phase, hist>>

NextRetention ==
    \/ RetentionRecord
    \/ RetentionDayPasses

SpecRetention == InitRetention /\ [][NextRetention]_vars

\* after an append: at most the cap, the rows kept are the newest of the
\* table with the fresh row last
CapAndFreshRow ==
    /\ Len(traceLog') <= MAX_TRACE_ENTRIES
    /\ Len(traceLog') >= 1
    /\ Len(traceLog') <= Len(traceLog) + 1
    /\ traceLog'[Len(traceLog')].timestamp = now
    /\ \A i \in 1..(Len(traceLog') - 1) :
          traceLog'[i] = traceLog[Len(traceLog) - (Len(traceLog') - 1) + i]

NoRowOlderThan(days) ==
    \A i \in 1..Len(traceLog') :
        traceLog'[i].timestamp >= now - days * HOURS_PER_DAY

\* C25 as stated: after every append the table holds at most the cap, the
\* newest rows, the fresh row, and no row older than the configured
\* retention age.
C25_AsStated ==
    [][last'.op = "record_ws_trace" =>
          /\ CapAndFreshRow
          /\ NoRowOlderThan(Max(0, last.retention_days))]_vars

\* C25 (amended): the same, the age bound holding when the configured
\* retention age is positive; a setting of 0 or less switches the age cap off.
C25_TraceRetention ==
    [][last'.op = "record_ws_trace" =>
          /\ CapAndFreshRow
          /\ (last.retention_days > 0 => NoRowOlderThan(last.retention_days))]_vars

\* an append under a one-day retention, on a table that was full, after which
\* only rows of the last day are left
C25_Witness ==
    /\ last.op = "record_ws_trace"
    /\ last.retention_days = 1
    /\ now > 2 * HOURS_PER_DAY
    /\ Len(traceLog) = 2
    /\ traceLog[1].timestamp < now

----------------------------------------------------------------------------
\* SpecCycle: cycle_log frames over time and the cycle history read.

MAX_CYCLE_HISTORY_HOURS == 8760

\* the cycle types sent; "" is a frame without cycle_type
CycleTypes == {"roller_auto", "pump_normal", "manual", ""}

\* cycle_type.startswith("roller") / startswith("pump"), on the types above
cycle_type_prefix(cycle_type) ==
    IF cycle_type \in {"roller_auto", "roller_activation"} THEN "roller"
    ELSE IF cycle_type \in {"pump_normal", "pump_activation"} THEN "pump"
    ELSE ""

get_cycle_logs_all(rows, timestamp) == rows

\* get_cycle_logs_since: rows are held in recorded_at, id order
get_cycle_logs_since(rows, timestamp) ==
    SelectSeq(rows, LAMBDA r : r.recorded_at >= timestamp)

RECURSIVE SumDurations(_)
SumDurations(items) ==
    IF items = <<>> THEN 0
    ELSE (IF Head(items).duration_ms = None THEN 0 ELSE Head(items).duration_ms[1])
         + SumDurations(Tail(items))

\* summarize(items) of cycle_history
summarize(items, clamped_window) ==
    [count              |-> Len(items),
     total_duration_ms  |-> SumDurations(items),
     avg_duration_ms    |-> IF Len(items) > 0 THEN Frac(SumDurations(items), Len(items))
                            ELSE Frac(0, 1),
     frequency_per_hour |-> Frac(Len(items), clamped_window)]

cycle_history(window_hours) ==
    LET clamped_window == Max(1, Min(window_hours, MAX_CYCLE_HISTORY_HOURS))
        logs        == get_cycle_logs_since(cycleLog, now - clamped_window)
        roller_logs == SelectSeq(logs, LAMBDA l : cycle_type_prefix(l.cycle_type) = "roller")
        pump_logs   == SelectSeq(logs, LAMBDA l : cycle_type_prefix(l.cycle_type) = "pump")
        ato_stats   == summarize(pump_logs, clamped_window)
    IN  [window_hours     |-> clamped_window,
         roller_runs      |-> roller_logs,
         roller_stats     |-> summarize(roller_logs, clamped_window),
         ato_runs         |-> pump_logs,
         ato_stats        |-> ato_stats,
         avg_fill_seconds |-> IF ato_stats.count > 0
                              THEN Frac(ato_stats.total_duration_ms, ato_stats.count * 1000)
                              ELSE Frac(0, 1)]

\* a cycle_log frame is handled: record_cycle_log
CycleLogFrame ==
    \E cycle_type \in CycleTypes, duration_ms \in {None, Some(3200), Some(7800)} :
        LET payload == [ids |-> Ids(IdentModule), cycle_type |-> cycle_type,
                        trigger |-> "manual", duration_ms |-> duration_ms]
        IN  /\ Handled("cycle_log", IdentModule, payload, MaxCycleOps)
            /\ cycleLog' = record_cycle_log(cycleLog, resolve_module_id(payload, "unknown"),
                                            IF cycle_type = "" THEN "unknown" ELSE cycle_type,
                                            payload.trigger, duration_ms, now)
            /\ UNCHANGED <<store, db, pending, usageLog, snapshotLog>>
            /\ BridgeUnchanged

\* ten days, or a year, of wall-clock time go by
CycleTimePasses ==
    \E hours \in {240, MAX_CYCLE_HISTORY_HOURS} :
        /\ ops < MaxCycleOps
        /\ ops' = ops + 1
        /\ now' = now + hours
        /\ last' = [op |-> "time", at |-> now]
        /\ UNCHANGED <<store, db, pending, usageLog, cycleLog, snapshotLog, traceLog,
                       registry, conns, phase, hist>>

NextCycle ==
    \/ CycleLogFrame
    \/ CycleTimePasses

SpecCycle == Init /\ [][NextCycle]_vars

HistoryWindows == {0, 1, 24, 300, 100000}

\* the rows of the cycle log recorded within the last w hours whose type has
\* the prefix
RowsInWindow(w, prefix) ==
    { i \in 1..Len(cycleLog) :
        /\ cycleLog[i].recorded_at >= now - w
        /\ cycle_type_prefix(cycleLog[i].cycle_type) = prefix }

RECURSIVE DurationOver(_)
DurationOver(S) ==
    IF S = {} THEN 0
    ELSE LET i == CHOOSE x \in S : TRUE
         IN  (IF cycleLog[i].duration_ms = None THEN 0 ELSE cycleLog[i].duration_ms[1])
             + DurationOver(S \ {i})

\* runs and stats are the listing and the aggregates of the rows S over w hours
GroupAsClaimed(runs, stats, S, w) ==
    /\ Len(runs) = Cardinality(S)
    /\ \A i \in S : \E k \in 1..Len(runs) : runs[k] = cycleLog[i]
    /\ \A k \in 1..Len(runs) : \E i \in S : runs[k] = cycleLog[i]
    /\ stats.count = Cardinality(S)
    /\ stats.total_duration_ms = DurationOver(S)
    /\ stats.avg_duration_ms.n * Cardinality(S) = DurationOver(S) * stats.avg_duration_ms.d
    /\ stats.frequency_per_hour.n * w = Cardinality(S) * stats.frequency_per_hour.d

----------------------------------------------------------------------------
\* SpecRegister: connections whose frames arrive before and after their first
\* status frame, with and without a module id.

RegisterFrames ==
    IdentFrames
    \cup { [type |-> "config",
            payload |-> [ids |-> Ids(IdentModule), spool |-> [full_edges |-> 100]]],
           [type |-> "alarm",
            payload |-> [ids |-> Ids(IdentModule),
                         alarm |-> [code |-> Some("leak"), severity |-> None,
                                    active |-> Some(TRUE), message |-> None]]] }

RegisterReceive == \E c \in DOMAIN conns, f \in RegisterFrames : ReceiveFrame(c, f)

RegisterDispatch(max) == \E c \in DOMAIN conns : DispatchFrame(c, FALSE, max)

NextRegister ==
    \/ Accept
    \/ RegisterReceive
    \/ RegisterDispatch(MaxRegisterOps)

SpecRegister == Init /\ [][NextRegister]_vars

\* no registry entry points to connection c
Unregistered(c) == \A m \in DOMAIN registry : registry[m] # c

\* the registry entry of m is new or changed in this step
EntersRegistry(m) ==
    /\ m \in DOMAIN registry'
    /\ (m \in DOMAIN registry => registry'[m] # registry[m])

\* C27: a registry entry is made only by the step that handles a status frame,
\* for the id that frame resolved and pointing to the frame's connection; and
\* a frame handled on a connection that no registry entry points to is still
\* applied to the module it resolves to.
C27_RegisteredByStatusOnly ==
    [][/\ \A m \in DOMAIN registry' : EntersRegistry(m) =>
              \E c \in DOMAIN conns :
                  /\ TakesReceivedFrame(c)
                  /\ HeadType(c) = "status"
                  /\ registry'[m] = c
                  /\ m = resolve_module_id(Head(conns[c].queue).payload, "unknown")
       /\ \A c \in DOMAIN conns :
              (TakesReceivedFrame(c) /\ Unregistered(c)) =>
                  AppliedTo(IF HeadType(c) \in {"status", "cycle_log"}
                            THEN resolve_module_id(Head(conns[c].queue).payload, "unknown")
                            ELSE resolve_module_id(Head(conns[c].queue).payload,
                                                   EndpointId(c)),
                            HeadType(c))]_vars

----------------------------------------------------------------------------
\* Close of a connection (SpecConn)

\* the endpoint of c takes the disconnect marker in this step
CloseHandled(c) == ConnEnds(c) /\ Head(conns[c].queue).type = ""

\* the module identified on c: the id the receiver resolved last, or else the
\* id the endpoint holds
Identified(c) ==
    IF conns[c].tracked # "" THEN conns[c].tracked ELSE conns[c].module_id

C28_WitnessAnonymous ==
    \E c \in DOMAIN conns :
        /\ conns[c].ended
        /\ last.op = "disconnect"
        /\ last.module_id = ""
        /\ store # EmptyDict

----------------------------------------------------------------------------
\* Config frames and the status of a record (SpecDerive)

\* C29: the step that handles a config frame for module m leaves m's config
\* payload equal to the frame's payload and the status of an existing record
\* as it was; and a record created by a config or manifest frame has status
\* "online" after the step.
C29_ConfigReplacesAndPromotes ==
    [][/\ last'.op = "config" =>
             /\ store'[last'.module_id].config_payload =
                    [k \in DOMAIN last'.payload \ {"ids"} |-> last'.payload[k]]
             /\ last'.module_id \in DOMAIN store =>
                    store'[last'.module_id].status = store[last'.module_id].status
       /\ (last'.op \in {"config", "module_manifest"}
           /\ last'.module_id \notin DOMAIN store) =>
              store'[last'.module_id].status = "online"]_vars

----------------------------------------------------------------------------
\* Mutating operations and the durable write (SpecCancel)

\* C30: once upsert_module_status has returned to the endpoint, the record in
\* memory shows the frame's status payload and the operation has scheduled
\* the durable write of the record.
C30_MutationSchedulesWrite ==
    \A c \in DOMAIN conns :
        (conns[c].pc = "idle" /\ conns[c].frame # None) =>
            /\ conns[c].frame[1].module_id \in DOMAIN store
            /\ store[conns[c].frame[1].module_id].status_payload =
                   conns[c].frame[1].payload_copy
            /\ conns[c].frame[1].persist_scheduled

----------------------------------------------------------------------------
\* Implausible usage deltas (SpecSpool)

\* the values the frame handled in this step carries for the spool fragment
UsageIncoming ==
    IF last'.op = "status" THEN last'.payload.spool
    ELSE SpoolFragmentOf(last'.payload)

\* the delta of the step is implausible: fullEdges is missing or not
\* positive, or the used edges did not rise, or the delta exceeds a full roll
UsageImplausible ==
    \/ UsageFull = None
    \/ UsageFull[1] <= 0
    \/ /\ UsageCurrent # None /\ UsagePrevious # None
       /\ \/ UsageCurrent[1] - UsagePrevious[1] <= 0
          \/ (UsageCurrent[1] - UsagePrevious[1]) * UsageTotal[1]
                 > UsageTotal[1] * UsageFull[1]

\* C31: a status or spool_activations frame whose usage delta is implausible
\* (deltaEdges <= 0, deltaMm > totalLengthMm, or fullEdges missing or not
\* positive) appends no usage row, and the stored spool fragment holds every
\* value the frame carries.
C31_ImplausibleDeltaDropped ==
    [][(/\ UsageStep
        /\ last'.module_id \in DOMAIN store'
        /\ UsageIncoming # EmptyDict
        /\ UsageImplausible)
       => /\ usageLog' = usageLog
          /\ \A k \in DOMAIN UsageIncoming :
                /\ k \in DOMAIN store'[last'.module_id].status_payload.spool
                /\ store'[last'.module_id].status_payload.spool[k] = UsageIncoming[k]]_vars

\* a status frame reporting fewer used edges than the last usage row has been
\* handled: the stored fragment holds the new value and no row was appended
C31_Witness ==
    /\ last.op = "status"
    /\ usageLog # <<>>
    /\ usageLog[Len(usageLog)].recorded_at < last.at
    /\ "used_edges" \in DOMAIN last.payload.spool
    /\ StoredSpool(last.module_id).used_edges = last.payload.spool.used_edges
    /\ usageLog[Len(usageLog)].total_used_edges > last.payload.spool.used_edges

\* a status frame reporting a jump of more than a full roll has been handled
C31_WitnessSpike ==
    /\ last.op = "status"
    /\ "used_edges" \in DOMAIN last.payload.spool
    /\ last.payload.spool.used_edges = 250
    /\ StoredSpool(last.module_id).used_edges = 250
    /\ "full_edges" \in DOMAIN StoredSpool(last.module_id)
    /\ \A i \in 1..Len(usageLog) : usageLog[i].recorded_at # last.at

----------------------------------------------------------------------------
\* SpecResolve: _resolve_used_edges applied to one spool state.  The spool
\* state and the resolved fullEdges are drawn at the start and kept in `last`.

ResolveUsedValues == {-5, 40}
ResolveRemainingValues == {-10, 30, 130}
ResolvePercentValues == {-20, 50, 150}
ResolveFullEdges == {0, 100, 200}

\* the spool states: every combination of the three fields present or absent
ResolveSpools ==
    { DictMerge(DictMerge(u, r), p) :
        u \in {EmptyDict} \cup { [used_edges |-> v] : v \in ResolveUsedValues },
        r \in {EmptyDict} \cup { [remaining_edges |-> v] : v \in ResolveRemainingValues },
        p \in {EmptyDict} \cup { [percent_remaining |-> v] : v \in ResolvePercentValues } }

InitResolve ==
    /\ store = EmptyDict
    /\ db = EmptyDict
    /\ pending = {}
    /\ usageLog = <<>>
    /\ cycleLog = <<>>
    /\ snapshotLog = <<>>
    /\ traceLog = <<>>
    /\ registry = EmptyDict
    /\ conns = EmptyDict
    /\ phase = "serving"
    /\ now = 1
    /\ ops = 0
    /\ \E spool \in ResolveSpools, full_edges \in ResolveFullEdges :
          last = [op |-> "init", at |-> 0, spool |-> spool, full_edges |-> full_edges]
    /\ hist = [alarms |-> EmptyDict, counters |-> EmptyDict]

ResolveUsed ==
    /\ ops < MaxResolveOps
    /\ ops' = ops + 1
    /\ last' = [op |-> "resolve_used_edges", at |-> now,
                spool |-> last.spool, full_edges |-> last.full_edges,
                used |-> resolve_used_edges(last.spool, last.full_edges)]
    /\ UNCHANGED <<store, db, pending, usageLog, cycleLog, snapshotLog, traceLog,
                   registry, conns, phase, now, hist>>

NextResolve == ResolveUsed

SpecResolve == InitResolve /\ [][NextResolve]_vars

ClampPercent(percent) == IF percent < 0 THEN 0 ELSE IF percent > 100 THEN 100 ELSE percent

\* C32: the used edges of a spool state are the explicit used_edges; else,
\* with a fullEdges, max(0, fullEdges - remaining_edges); else fullEdges *
\* (1 - percent_remaining / 100) with the percentage clamped to [0, 100];
\* else unresolved.  The remaining_edges and percent_remaining results are
\* never negative and the percent_remaining result never exceeds fullEdges.
C32_UsedEdgesPriority ==
    last.op = "resolve_used_edges" =>
        LET spool == last.spool
            full  == last.full_edges
        IN  IF "used_edges" \in DOMAIN spool
            THEN last.used = Some(spool.used_edges)
            ELSE IF "remaining_edges" \in DOMAIN spool /\ full > 0
            THEN /\ last.used # None
                 /\ last.used[1] >= 0
                 /\ last.used[1] = IF full - spool.remaining_edges > 0
                                   THEN full - spool.remaining_edges ELSE 0
            ELSE IF "percent_remaining" \in DOMAIN spool /\ full > 0
            THEN /\ last.used # None
                 /\ last.used[1] >= 0
                 /\ last.used[1] <= full
                 /\ last.used[1] * 100 = full * (100 - ClampPercent(spool.percent_remaining))
            ELSE last.used = None

\* a spool state without used_edges whose remaining_edges exceed fullEdges
\* has been resolved to 0
C32_Witness ==
    /\ last.op = "resolve_used_edges"
    /\ "used_edges" \notin DOMAIN last.spool
    /\ "remaining_edges" \in DOMAIN last.spool
    /\ "percent_remaining" \in DOMAIN last.spool
    /\ last.full_edges > 0
    /\ last.spool.remaining_edges > last.full_edges
    /\ last.used = Some(0)

----------------------------------------------------------------------------
\* SpecLogs: the usage log and the cycle log at their row caps.  The process
\* starts on tables an earlier run left full, or on empty ones; status and
\* cycle_log frames append, a purge deletes, a restart rehydrates.

LogsModule == "A"

\* a usage table with MAX_SPOOL_USAGE_ENTRIES rows of module A (a roll used
\* edge by edge, many times over)
FullUsage ==
    [i \in 1..MAX_SPOOL_USAGE_ENTRIES |->
        [module_id |-> LogsModule, delta_edges |-> 1, delta_mm |-> Frac(500, 1),
         total_used_edges |-> i, recorded_at |-> 0]]

\* a cycle table with MAX_CYCLE_LOG_ENTRIES rows
FullCycle ==
    [i \in 1..MAX_CYCLE_LOG_ENTRIES |->
        [module_id |-> LogsModule, cycle_type |-> "roller_auto", trigger |-> "auto",
         duration_ms |-> Some(i), recorded_at |-> 0]]

\* the record of module A the earlier run left in memory and in the table
LogsRecord ==
    [NewModule(0) EXCEPT !.status_payload =
        [spool |-> [full_edges |-> 100, used_edges |-> 0], ato |-> EmptyDict]]

InitLogs ==
    /\ \E full \in BOOLEAN :
          /\ usageLog = IF full THEN FullUsage ELSE <<>>
          /\ store = IF full THEN [A |-> LogsRecord] ELSE EmptyDict
          /\ db = store
    /\ cycleLog \in {<<>>, FullCycle}
    /\ pending = {}
    /\ snapshotLog = <<>>
    /\ traceLog = <<>>
    /\ registry = EmptyDict
    /\ conns = EmptyDict
    /\ phase = "serving"
    /\ now = 1
    /\ ops = 0
    /\ last = [op |-> "init", at |-> 0]
    /\ hist = [alarms |-> EmptyDict, counters |-> EmptyDict]

LogsCycle ==
    LET payload == [ids |-> Ids(LogsModule), cycle_type |-> "pump_normal",
                    trigger |-> "manual", duration_ms |-> Some(3200)]
    IN  /\ phase = "serving"
        /\ Handled("cycle_log", LogsModule, payload, MaxLogsOps)
        /\ cycleLog' = record_cycle_log(cycleLog, resolve_module_id(payload, "unknown"),
                                        payload.cycle_type, payload.trigger,
                                        payload.duration_ms, now)
        /\ UNCHANGED <<store, db, pending, usageLog, snapshotLog>>
        /\ BridgeUnchanged

LogsPurge == phase = "serving" /\ Purge(MaxLogsOps)

NextLogs ==
    \/ LiveStatus(MaxLogsOps)
    \/ LogsCycle
    \/ LogsPurge
    \/ Shutdown(MaxLogsOps)
    \/ Startup(MaxLogsOps)

SpecLogs == InitLogs /\ [][NextLogs]_vars

\* the step keeps table `new` within max rows, and `new` is `old` without its
\* k oldest rows, for some k, followed by the rows the step appended: every
\* row that stays is unchanged and none is older than a dropped row
LogKept(old, new, max) ==
    /\ Len(new) <= max
    /\ \/ new = old
       \/ \E k \in 0..Len(old) :
             /\ Len(new) >= Len(old) - k
             /\ k < Len(old) => new[1] = old[k + 1]
             /\ SubSeq(new, 1, Len(old) - k) = SubSeq(old, k + 1, Len(old))
             /\ \A d \in 1..k : \A r \in 1..Len(new) :
                   old[d].recorded_at <= new[r].recorded_at

\* C33 as stated: every step leaves the cycle log within 2000 rows and the
\* usage log within 5000, drops rows of either only oldest-first and changes
\* no row that stays.
C33_AsStated ==
    [][/\ LogKept(usageLog, usageLog', MAX_SPOOL_USAGE_ENTRIES)
       /\ LogKept(cycleLog, cycleLog', MAX_CYCLE_LOG_ENTRIES)]_vars

\* C33 amended: every step leaves both logs within their caps; every step but
\* a purge drops rows only oldest-first and changes no row that stays; a
\* purge deletes the usage rows of the purged module, whatever their age, and
\* no other usage row.
C33_LogsRetention ==
    [][/\ Len(usageLog') <= MAX_SPOOL_USAGE_ENTRIES
       /\ Len(cycleLog') <= MAX_CYCLE_LOG_ENTRIES
       /\ IF ops' = ops + 1 /\ last'.op = "purge"
          THEN usageLog' = RowsNotOf(usageLog, last'.module_id)
          ELSE /\ LogKept(usageLog, usageLog', MAX_SPOOL_USAGE_ENTRIES)
               /\ LogKept(cycleLog, cycleLog', MAX_CYCLE_LOG_ENTRIES)]_vars

\* both tables are at their caps, each has lost its oldest row to the row
\* appended last
C33_Witness ==
    /\ Len(usageLog) = MAX_SPOOL_USAGE_ENTRIES
    /\ usageLog[1] = FullUsage[2]
    /\ usageLog[Len(usageLog)].recorded_at > 0
    /\ Len(cycleLog) = MAX_CYCLE_LOG_ENTRIES
    /\ cycleLog[1] = FullCycle[2]
    /\ cycleLog[Len(cycleLog)].recorded_at > 0

----------------------------------------------------------------------------
\* SpecIdentity: resolve_module_id on payloads whose candidate values are of
\* every JSON type.  A value is a record with its kind; a string is its text
\* without the surrounding whitespace (core) and whether it has any (padded);
\* a number is n.  The payload and the fallback are drawn at the start and
\* kept in `last`.

\* str(n), on the numbers of the model
NumberText(n) == <<"1", "2", "3", "4", "5">>[n]

JsonValues(i) ==
    { [kind |-> "null"], [kind |-> "bool", b |-> TRUE], [kind |-> "list"],
      [kind |-> "str", core |-> "", padded |-> TRUE],
      [kind |-> "str", core |-> MODULE_ID_KEYS[i], padded |-> TRUE],
      [kind |-> "num", n |-> i] }

\* _normalize_module_value on a JSON value: value.strip() is the core
normalize_module_value_json(value) ==
    IF value.kind \in {"null", "bool"} THEN None
    ELSE IF value.kind = "str" THEN (IF value.core = "" THEN None ELSE Some(value.core))
    ELSE IF value.kind = "num" THEN Some(NumberText(value.n))
    ELSE None

RECURSIVE ScanJsonKeysFirstPresent(_, _)
ScanJsonKeysFirstPresent(fields, keys) ==
    IF keys = <<>> THEN None
    ELSE IF Head(keys) \in DOMAIN fields
         THEN normalize_module_value_json(fields[Head(keys)])
         ELSE ScanJsonKeysFirstPresent(fields, Tail(keys))

\* the loop of resolve_module_id
RECURSIVE ScanJsonKeys(_, _)
ScanJsonKeys(fields, keys) ==
    IF keys = <<>> THEN None
    ELSE LET normalized == IF Head(keys) \in DOMAIN fields
                           THEN normalize_module_value_json(fields[Head(keys)])
                           ELSE None
         IN  IF normalized # None THEN normalized
             ELSE ScanJsonKeys(fields, Tail(keys))

\* resolve_module_id; fallback "" stands for None and for the empty string
resolve_module_id_json(payload, fallback) ==
    IF payload.kind # "object"
    THEN (IF fallback = "" THEN "unknown" ELSE fallback)
    ELSE LET hit == ScanJsonKeys(payload.fields, MODULE_ID_KEYS)
         IN  IF hit # None THEN hit[1]
             ELSE IF fallback = "" THEN "unknown" ELSE fallback

\* objects with each candidate key absent or holding one of its values
IdentityObjects ==
    { [kind |-> "object",
       fields |-> [i \in present |-> choice[i]]] :
          present \in SUBSET {"module", "module_id", "id"},
          choice \in [{"module", "module_id", "id"} ->
                         UNION { JsonValues(i) : i \in 1..3 }] }

IdentityPayloads ==
    { [kind |-> "list"], [kind |-> "null"] }
    \cup IdentityObjects
    \cup { [kind |-> "object", fields |-> f] :
             f \in { [device_id |-> [kind |-> "null"],
                      device |-> [kind |-> "str", core |-> "device", padded |-> FALSE]],
                     [id |-> [kind |-> "bool", b |-> FALSE],
                      device_id |-> [kind |-> "num", n |-> 4],
                      device |-> [kind |-> "str", core |-> "device", padded |-> TRUE]] } }

InitIdentity ==
    /\ store = EmptyDict
    /\ db = EmptyDict
    /\ pending = {}
    /\ usageLog = <<>>
    /\ cycleLog = <<>>
    /\ snapshotLog = <<>>
    /\ traceLog = <<>>
    /\ registry = EmptyDict
    /\ conns = EmptyDict
    /\ phase = "serving"
    /\ now = 1
    /\ ops = 0
    /\ \E payload \in IdentityPayloads, fallback \in {"", "hint"} :
          last = [op |-> "init", at |-> 0, payload |-> payload, fallback |-> fallback]
    /\ hist = [alarms |-> EmptyDict, counters |-> EmptyDict]

IdentityResolve ==
    /\ ops < MaxIdentityOps
    /\ ops' = ops + 1
    /\ last' = [op |-> "resolve_module_id", at |-> now,
                payload |-> last.payload, fallback |-> last.fallback,
                module_id |-> resolve_module_id_json(last.payload, last.fallback)]
    /\ UNCHANGED <<store, db, pending, usageLog, cycleLog, snapshotLog, traceLog,
                   registry, conns, phase, now, hist>>

NextIdentity == IdentityResolve

SpecIdentity == InitIdentity /\ [][NextIdentity]_vars

\* the value qualifies as a module id: a string that is not blank, or a
\* number that is not a boolean
QualifiesAsId(value) ==
    \/ value.kind = "str" /\ value.core # ""
    \/ value.kind = "num"

\* the positions in module, module_id, id, device_id, device whose key holds
\* a qualifying value
QualifyingKeys(fields) ==
    { i \in 1..Len(MODULE_ID_KEYS) :
        /\ MODULE_ID_KEYS[i] \in DOMAIN fields
        /\ QualifiesAsId(fields[MODULE_ID_KEYS[i]]) }

\* C34: the id resolved is the trimmed string, or the stringified number, of
\* the first key in module, module_id, id, device_id, device that holds a
\* qualifying value, whatever the keys before it hold; with no such key, or a
\* payload that is not an object, it is the fallback, and "unknown" for an
\* empty fallback.
C34_ResolveModuleId ==
    last.op = "resolve_module_id" =>
        LET keys == IF last.payload.kind = "object"
                    THEN QualifyingKeys(last.payload.fields) ELSE {}
        IN  IF keys = {}
            THEN last.module_id = IF last.fallback = "" THEN "unknown" ELSE last.fallback
            ELSE LET first == CHOOSE i \in keys : \A j \in keys : i <= j
                     value == last.payload.fields[MODULE_ID_KEYS[first]]
                 IN  last.module_id = IF value.kind = "str" THEN value.core
                                      ELSE NumberText(value.n)

\* an id taken from the third key, after a null and a blank string
C34_Witness ==
    /\ last.op = "resolve_module_id"
    /\ last.payload.kind = "object"
    /\ DOMAIN last.payload.fields = {"module", "module_id", "id"}
    /\ last.payload.fields.module.kind = "null"
    /\ last.payload.fields.module_id.kind = "str"
    /\ last.payload.fields.module_id.core = ""
    /\ last.payload.fields.id.kind = "num"
    /\ last.module_id = "3"

----------------------------------------------------------------------------
\* SpecPersist: frames of two modules and their persistence tasks.  Each task
\* dumps the record when it starts and saves the dump in a session of its
\* own; the saves of two tasks commit in either order.

NextPersist ==
    \/ StoreStatus(MaxPersistOps)
    \/ StoreAlarm(MaxPersistOps)
    \/ PersistDump
    \/ PersistSave

SpecPersist == Init /\ [][NextPersist]_vars

\* C35: when no persistence task is pending, the durable record of every
\* module in the store equals its record in memory.
C35_DurableConverges ==
    pending = {} =>
        \A m \in DOMAIN store : m \in DOMAIN db /\ db[m] = store[m]

----------------------------------------------------------------------------
\* Purge and the persistence tasks scheduled before it (Spec)

\* C36: a module id that has no record in memory (it was never seen, or it
\* was purged and no frame for it was handled since) and no persistence task
\* pending has no record in the durable module table.
C36_PurgedStaysGone ==
    \A m \in Modules :
        (m \notin DOMAIN store /\ \A t \in pending : t.module_id # m)
            => m \notin DOMAIN db

----------------------------------------------------------------------------
\* SpecOrder: one connection, its receiver task and its endpoint loop, with
\* the handling of a frame in two steps (it starts; it returns), so that
\* frames arrive while one is being handled.
\*   conns[c].received  frames the receiver has read, numbered in that order
\*   conns[c].inflight  the number of the frame being handled, 0 for none
\*   conns[c].handled   the numbers of the frames whose handling has returned
\*   conns[c].pc        "idle": the endpoint waits in frame_queue.get();
\*                      "handling": it waits for _handle_module_message

OrderConn == 1
OrderModule == "A"

OrderFragments == { [full_edges |-> 100, used_edges |-> 0], [used_edges |-> 40] }

queue_get_lifo(queue) == queue[Len(queue)]

\* asyncio.Queue.get: the item put first
queue_get(queue) == Head(queue)

OrderAccept ==
    /\ phase = "serving"
    /\ OrderConn \notin DOMAIN conns
    /\ conns' = ConnPut(OrderConn,
                    [sock |-> "open", tracked |-> "", module_id |-> "", queue |-> <<>>,
                     ended |-> FALSE, pc |-> "idle", received |-> 0, inflight |-> 0,
                     handled |-> <<>>])
    /\ UNCHANGED <<store, db, pending, usageLog, cycleLog, snapshotLog, traceLog,
                   registry, phase, now, ops, last, hist>>

\* one iteration of _receive_module_frames: the queue has no size limit, so
\* queue.put returns at once
OrderReceive ==
    \E f \in OrderFragments :
        LET c       == OrderConn
            payload == [ids |-> Ids(OrderModule), spool |-> f, ato |-> EmptyDict]
        IN  /\ c \in DOMAIN conns
            /\ conns[c].sock = "open"
            /\ conns[c].received < MaxOrderFrames
            /\ traceLog' = maybe_record_ws_trace(traceLog, "rx", "status", payload,
                                                 OrderModule, FALSE, TRUE)
            /\ conns' = ConnPut(c, [conns[c] EXCEPT
                            !.tracked = OrderModule,
                            !.received = @ + 1,
                            !.queue = Append(@, [type |-> "status", payload |-> payload,
                                                 module_id |-> OrderModule,
                                                 seq |-> conns[c].received + 1])])
            /\ UNCHANGED <<store, db, pending, usageLog, cycleLog, snapshotLog,
                           registry, phase, now, ops, last, hist>>

\* receive_json raises WebSocketDisconnect: the receiver queues the marker
\* and returns
OrderDisconnect ==
    LET c == OrderConn
    IN  /\ c \in DOMAIN conns
        /\ conns[c].sock = "open"
        /\ conns' = ConnPut(c, [conns[c] EXCEPT
                        !.sock = "closed",
                        !.queue = Append(@, [type |-> "", payload |-> EmptyDict,
                                             module_id |-> conns[c].tracked,
                                             seq |-> 0])])
        /\ UNCHANGED <<store, db, pending, usageLog, cycleLog, snapshotLog, traceLog,
                       registry, phase, now, ops, last, hist>>

\* the endpoint takes a frame from the queue and _handle_module_message runs
\* up to the awaits of upsert_module_status
OrderBegin ==
    LET c == OrderConn
    IN  /\ c \in DOMAIN conns
        /\ ~conns[c].ended
        /\ conns[c].pc = "idle"
        /\ conns[c].queue # <<>>
        /\ queue_get(conns[c].queue).type = "status"
        /\ Handled("status", OrderModule, queue_get(conns[c].queue).payload,
                   MaxOrderFrames + 2)
        /\ upsert_module_status(queue_get(conns[c].queue).payload)
        /\ conns' = ConnPut(c, [conns[c] EXCEPT
                        !.queue = Tail(@),
                        !.pc = "handling",
                        !.module_id = OrderModule,
                        !.inflight = queue_get(conns[c].queue).seq])
        /\ UNCHANGED <<traceLog, registry, phase>>

\* _handle_module_message returns: manager.register, back to frame_queue.get()
OrderEnd ==
    LET c == OrderConn
    IN  /\ c \in DOMAIN conns
        /\ conns[c].pc = "handling"
        /\ registry' = register(OrderModule, c)
        /\ conns' = ConnPut(c, [conns[c] EXCEPT
                        !.pc = "idle",
                        !.inflight = 0,
                        !.handled = Append(@, conns[c].inflight)])
        /\ UNCHANGED <<store, db, pending, usageLog, cycleLog, snapshotLog, traceLog,
                       phase, now, ops, last, hist>>

\* the endpoint takes the marker: unregister, mark offline, leave the loop;
\* the receiver task has returned, so the `finally` block does not wait
OrderClose ==
    LET c         == OrderConn
        module_id == IF queue_get(conns[c].queue).module_id # ""
                     THEN queue_get(conns[c].queue).module_id ELSE conns[c].module_id
    IN  /\ c \in DOMAIN conns
        /\ ~conns[c].ended
        /\ conns[c].pc = "idle"
        /\ conns[c].queue # <<>>
        /\ queue_get(conns[c].queue).type = ""
        /\ Handled("disconnect", module_id, EmptyDict, MaxOrderFrames + 2)
        /\ Cleanup(module_id)
        /\ conns' = ConnPut(c, [conns[c] EXCEPT !.queue = Tail(@),
                                !.module_id = module_id, !.ended = TRUE])
        /\ UNCHANGED <<traceLog, phase>>

NextOrder ==
    \/ OrderAccept
    \/ OrderReceive
    \/ OrderDisconnect
    \/ OrderBegin
    \/ OrderEnd
    \/ OrderClose

\* the event loop runs every task that is ready: an endpoint with an item in
\* its queue takes it, and a handler that was started returns
SpecOrder ==
    /\ Init
    /\ [][NextOrder]_vars
    /\ WF_vars(OrderBegin)
    /\ WF_vars(OrderEnd)
    /\ WF_vars(OrderClose)

\* C37: the frames of a connection are handled one at a time in the order
\* they were received; a frame can be received while another is being
\* handled; the endpoint leaves its loop only after every frame received has
\* been handled; and a connection whose transport has disconnected
\* eventually leaves its loop.
C37_OrderedHandling ==
    /\ [](OrderConn \in DOMAIN conns =>
            LET conn == conns[OrderConn]
            IN  /\ conn.handled = [i \in 1..Len(conn.handled) |-> i]
                /\ conn.inflight # 0 => conn.inflight = Len(conn.handled) + 1
                /\ conn.ended => Len(conn.handled) = conn.received
                /\ (conn.pc = "handling" /\ conn.sock = "open"
                    /\ conn.received < MaxOrderFrames) => ENABLED OrderReceive)
    /\ (OrderConn \in DOMAIN conns /\ conns[OrderConn].sock = "closed")
           ~> (OrderConn \in DOMAIN conns /\ conns[OrderConn].ended)

\* the second frame was received while the first was being handled, and the
\* connection has ended after handling all three
C37_Witness ==
    /\ OrderConn \in DOMAIN conns
    /\ conns[OrderConn].ended
    /\ conns[OrderConn].handled = <<1, 2, 3>>

\* a frame waits in the queue while another is being handled
C37_WitnessQueued ==
    /\ OrderConn \in DOMAIN conns
    /\ conns[OrderConn].pc = "handling"
    /\ conns[OrderConn].queue # <<>>
    /\ conns[OrderConn].sock = "open"

----------------------------------------------------------------------------
\* C38: once the endpoint loop of a connection has ended, no registry entry
\* holds that connection - whichever module ids its frames carried - so no
\* module is left registered, and online, through a connection that is gone.
C38_NoEntryOutlivesConnection ==
    \A c \in DOMAIN conns :
        conns[c].ended => \A m \in DOMAIN registry : registry[m] # c

----------------------------------------------------------------------------
\* SpecUsage: one roller module with 100 edges on 1000 mm whose frames report
\* a used amount that never decreases, each through one of used_edges,
\* remaining_edges and percent_remaining.  last.first is the amount the first
\* frame reported and last.reported the amount the latest frame reported.

UsageModule == "A"
UsageRoll == [full_edges |-> 100, total_length_mm |-> 1000]
UsageLevels == {0, 20, 40, 70, 100}
UsageForms == {"used_edges", "remaining_edges", "percent_remaining"}

\* the spool field with which a module reports `used` edges used
UsageFragment(used, form) ==
    IF form = "used_edges" THEN [used_edges |-> used]
    ELSE IF form = "remaining_edges" THEN [remaining_edges |-> UsageRoll.full_edges - used]
    ELSE [percent_remaining |-> ((UsageRoll.full_edges - used) * 100) \div UsageRoll.full_edges]

UsageHandled(op, payload, first, reported) ==
    /\ ops < MaxUsageOps
    /\ ops' = ops + 1
    /\ now' = now + 1
    /\ last' = [op |-> op, module_id |-> UsageModule, payload |-> payload, at |-> now,
                first |-> first, reported |-> reported]
    /\ hist' = [alarms   |-> AlarmHistory(op, UsageModule, payload),
                counters |-> CounterHistory(op, UsageModule, payload)]

\* the module's first status frame: the roll and the amount used
UsageFirst ==
    \E used \in {0, 20}, form \in UsageForms :
        LET payload == [ids |-> Ids(UsageModule),
                        spool |-> DictMerge(UsageRoll, UsageFragment(used, form)),
                        ato |-> EmptyDict]
        IN  /\ ops = 0
            /\ UsageHandled("status", payload, used, used)
            /\ upsert_module_status(payload)
            /\ BridgeUnchanged

UsageStatus ==
    \E used \in UsageLevels, form \in UsageForms :
        LET payload == [ids |-> Ids(UsageModule), spool |-> UsageFragment(used, form),
                        ato |-> EmptyDict]
        IN  /\ ops > 0
            /\ used >= last.reported
            /\ UsageHandled("status", payload, last.first, used)
            /\ upsert_module_status(payload)
            /\ BridgeUnchanged

UsageActivations ==
    \E used \in UsageLevels, form \in UsageForms :
        LET payload == [ids |-> Ids(UsageModule), spool |-> EmptyDict,
                        top |-> DictMerge([activations |-> ops], UsageFragment(used, form)),
                        trig |-> EmptyDict]
        IN  /\ ops > 0
            /\ used >= last.reported
            /\ UsageHandled("spool_activations", payload, last.first, used)
            /\ apply_spool_activations(payload, "unknown")
            /\ BridgeUnchanged

NextUsage ==
    \/ UsageFirst
    \/ UsageStatus
    \/ UsageActivations

SpecUsage == Init /\ [][NextUsage]_vars

RECURSIVE SumDeltaEdges(_)
SumDeltaEdges(rows) ==
    IF rows = <<>> THEN 0 ELSE Head(rows).delta_edges + SumDeltaEdges(Tail(rows))

\* C39: over frames that report a non-decreasing used amount of one roll, in
\* any mix of the three fields, the deltaEdges of the module's usage rows add
\* up to the last reported amount minus the first, every row has
\* deltaEdges > 0 and 0 < deltaMm <= totalLengthMm, and the row a frame
\* produced carries the amount that frame reported.
C39_UsageConserved ==
    last.op # "init" =>
        LET rows == RowsOf(usageLog, UsageModule)
        IN  /\ SumDeltaEdges(rows) = last.reported - last.first
            /\ \A i \in 1..Len(rows) :
                  /\ rows[i].delta_edges > 0
                  /\ rows[i].delta_mm.n > 0
                  /\ rows[i].delta_mm.n <= UsageRoll.total_length_mm * rows[i].delta_mm.d
                  /\ rows[i].recorded_at = last.at =>
                        rows[i].total_used_edges = last.reported

----------------------------------------------------------------------------
\* the module id the receiver gave the frame at the head of connection c's
\* queue: the id the frame carries, else the id the connection resolved
\* before, else "unknown"
AttributedId(c) ==
    IF Head(conns[c].queue).module_id = "" THEN "unknown"
    ELSE Head(conns[c].queue).module_id

\* the payloads and alarms of module m in store st; a module without a
\* record has the empty ones of a new record
RecordParts(st, m) == IF m \in DOMAIN st THEN st[m] ELSE NewModule(0)

\* C40: a handled frame changes, in the record of the module it is
\* attributed to, only its own part - a status frame not the config payload
\* or the alarms, a config frame not the status payload or the alarms, an
\* alarm frame not the two payloads, a spool_activations frame only the spool
\* fragment and an ato_activations frame only the ato fragment of the status
\* payload - and it changes or creates the record of no other module id.
C40_FrameChangesOwnPart ==
    [][\A c \in DOMAIN conns :
          TakesReceivedFrame(c) =>
              LET type == HeadType(c)
                  m    == AttributedId(c)
                  old  == RecordParts(store, m)
                  new  == RecordParts(store', m)
              IN  /\ \A x \in DOMAIN store' \ {m} :
                        x \in DOMAIN store /\ store'[x] = store[x]
                  /\ type = "status" =>
                        /\ new.config_payload = old.config_payload
                        /\ new.alarms = old.alarms
                  /\ type = "config" =>
                        /\ new.status_payload = old.status_payload
                        /\ new.alarms = old.alarms
                  /\ type = "alarm" =>
                        /\ new.status_payload = old.status_payload
                        /\ new.config_payload = old.config_payload
                  /\ type = "spool_activations" =>
                        /\ new.status_payload.ato = old.status_payload.ato
                        /\ new.config_payload = old.config_payload
                        /\ new.alarms = old.alarms
                  /\ type = "ato_activations" =>
                        /\ new.status_payload.spool = old.status_payload.spool
                        /\ new.config_payload = old.config_payload
                        /\ new.alarms = old.alarms]_vars

====
